---- MODULE Spec2Model ----
(***************************************************************************)
(* SwimMeet mock API (src/mock_api/app.py) as a state machine.             *)
(*                                                                         *)
(* State: the three module-level collections (swimmers, events, races),    *)
(* the two JSON files the handlers rewrite, and the last request served    *)
(* with the response it got.  One action per route and HTTP method, the    *)
(* request running to completion; SpecThreads takes the handlers apart.    *)
(*                                                                         *)
(* Representation                                                          *)
(*  - a JSON object / Python dict is a function from field names to        *)
(*    values (a TLA+ record whose domain may vary);                        *)
(*  - a Python list is a sequence;                                         *)
(*  - strings the code takes apart or folds (race times, team names,       *)
(*    numeric query parameters) are sequences of one-character strings;    *)
(*    strings the code only compares or copies are TLA+ strings;           *)
(*  - a float produced by time_to_seconds is the IEEE-754 double the code   *)
(*    computes, as sign, integer part and the bits of the fraction;        *)
(*  - the query parameters of GET /api/swimmers are a dict (request.args),  *)
(*    so that ?team= and no team parameter are different requests; for the *)
(*    other routes a parameter that is absent and one that is empty are    *)
(*    both the empty string: the handlers test them by truthiness.         *)
(*                                                                         *)
(* SpecThreads runs the handlers on two threads of the threaded            *)
(* development server, every read or write of a list or a file being a     *)
(* step of its own; there inflight holds each thread's frame.              *)
(***************************************************************************)
EXTENDS Integers, Sequences, FiniteSets, TLC

VARIABLES
    swimmers,       \* app.py:30  list of swimmer dicts
    events,         \* app.py:31  list of event dicts (never written)
    races,          \* app.py:32  list of race dicts
    swimmers_file,  \* the text of data/swimmers.json: [data, len, size]
    races_file,     \* the text of data/race_results.json: [data, len, size]
    request,        \* the request served last
    response,       \* its response: [status, body]
    inflight        \* per thread: the frame of the handler it is in

vars == <<swimmers, events, races, swimmers_file, races_file, request, response, inflight>>

(***************************************************************************)
(* Bounds of the model.                                                    *)
(***************************************************************************)
MaxSwimmers == 2    \* registry length bound
MaxRaces    == 3    \* ledger length bound
MaxId       == 3    \* largest swimmer id allocated or written
MaxAge      == 75   \* ages -2 .. MaxAge are classified in SpecAge
MaxAgeSwimmers == 1 \* registry length bound in SpecAge
MaxAppends  == 4    \* ledger length bound in SpecAppend
MaxRankSwimmers == 3 \* registry length bound in SpecRank
MaxThreadRaces == 2 \* ledger length bound at the start of a submission in SpecThreads
MaxRequests == 2    \* requests each thread serves in SpecThreads

(***************************************************************************)
(* Python dict and list helpers.                                           *)
(***************************************************************************)
Has(d, k) == k \in DOMAIN d

\* dict.get(k, default)
Get(d, k, default) == IF k \in DOMAIN d THEN d[k] ELSE default

\* d with d[k] = v set (added or overwritten)
Put(d, k, v) == [x \in DOMAIN d \cup {k} |-> IF x = k THEN v ELSE d[x]]

\* dict.update(u): every key of u overwrites or extends d
Update(d, u) == [x \in DOMAIN d \cup DOMAIN u |-> IF x \in DOMAIN u THEN u[x] ELSE d[x]]

\* the empty dict
EmptyDict == [x \in {} |-> 0]

\* [x for x in seq if keep(x)], keep given as the list of the tests' results
Filter(seq, keep) ==
    LET F[i \in 0..Len(seq)] ==
            IF i = 0 THEN <<>>
            ELSE IF keep[i] THEN Append(F[i-1], seq[i]) ELSE F[i-1]
    IN F[Len(seq)]

\* max(list of ints), list non-empty
MaxOf(seq) == CHOOSE m \in {seq[i] : i \in 1..Len(seq)} :
                  \A j \in 1..Len(seq) : seq[j] <= m

\* index of next(x for x in seq if p(x)), p given as the list of the tests'
\* results; 0 when there is none
FirstIdx(hit) ==
    IF \E i \in 1..Len(hit) : hit[i]
    THEN CHOOSE i \in 1..Len(hit) : hit[i] /\ \A j \in 1..(i-1) : ~hit[j]
    ELSE 0

\* list.remove(x): removes the first element equal to x
RemoveAt(seq, i) == [j \in 1..(Len(seq)-1) |-> IF j < i THEN seq[j] ELSE seq[j+1]]

(***************************************************************************)
(* Character strings.                                                      *)
(***************************************************************************)
Digits == {"0", "1", "2", "3", "4", "5", "6", "7", "8", "9"}

DigitVal(c) ==
    CASE c = "0" -> 0 [] c = "1" -> 1 [] c = "2" -> 2 [] c = "3" -> 3
      [] c = "4" -> 4 [] c = "5" -> 5 [] c = "6" -> 6 [] c = "7" -> 7
      [] c = "8" -> 8 [] c = "9" -> 9

RECURSIVE Pow10(_)
Pow10(k) == IF k = 0 THEN 1 ELSE 10 * Pow10(k - 1)

\* value of a string of decimal digits (0 for the empty string)
RECURSIVE DecVal(_)
DecVal(s) ==
    IF Len(s) = 0 THEN 0
    ELSE 10 * DecVal(SubSeq(s, 1, Len(s) - 1)) + DigitVal(s[Len(s)])

AllDigits(s) == \A i \in 1..Len(s) : s[i] \in Digits

\* c in s
Contains(s, c) == \E i \in 1..Len(s) : s[i] = c

\* str.split(sep) for a one-character separator: the list of parts
RECURSIVE Split(_, _)
Split(s, sep) ==
    IF ~Contains(s, sep) THEN <<s>>
    ELSE LET i == CHOOSE k \in 1..Len(s) :
                      s[k] = sep /\ \A j \in 1..(k-1) : s[j] # sep
         IN <<SubSeq(s, 1, i - 1)>> \o Split(SubSeq(s, i + 1, Len(s)), sep)

\* an optional leading sign: [neg, rest]
Unsigned(s) ==
    IF Len(s) > 0 /\ s[1] \in {"-", "+"}
    THEN [neg |-> s[1] = "-", rest |-> Tail(s)]
    ELSE [neg |-> FALSE, rest |-> s]

\* int(s): [ok, v]; ok = FALSE stands for ValueError
PyInt(s) ==
    LET u == Unsigned(s)
    IN IF Len(u.rest) > 0 /\ AllDigits(u.rest)
       THEN [ok |-> TRUE, v |-> IF u.neg THEN 0 - DecVal(u.rest) ELSE DecVal(u.rest)]
       ELSE [ok |-> FALSE, v |-> 0]

(***************************************************************************)
(* Binary floating point, as float() and + of Python compute it: IEEE 754   *)
(* doubles, 53 significant bits, round to nearest, ties to even.  A double  *)
(* is the record [ok, neg, int, frac]: its value is                         *)
(* (-1)^neg * (int + SUM frac[i] * 2^-i), frac a sequence of bits without   *)
(* trailing zeros; zero is written with neg = FALSE (-0.0 and 0.0 compare   *)
(* equal).  ok = FALSE stands for ValueError.                               *)
(***************************************************************************)
SignificantBits == 53

NoDouble == [ok |-> FALSE, neg |-> FALSE, int |-> 0, frac |-> <<>>]

\* the number of binary digits of a natural number, 0 for 0
RECURSIVE BitLen(_)
BitLen(v) == IF v = 0 THEN 0 ELSE 1 + BitLen(v \div 2)

\* the largest value of the integers the arithmetic below is done in
MaxInt == 2147483647

\* how many binary digits of r/den one division yields: the largest c with
\* den * 2^c <= MaxInt
ChunkBits(den) == BitLen(MaxInt \div den) - 1

\* the c binary digits of q < 2^c
IntBits(q, c) == [p \in 1..c |-> (q \div 2 ^ (c - p)) % 2]

\* what is left of r/den below its first m * c binary digits, as a numerator
\* over den (0 <= r < den, den * 2^c <= MaxInt)
RECURSIVE FracChunkRest(_, _, _, _)
FracChunkRest(r, den, c, m) ==
    IF m = 0 THEN r ELSE FracChunkRest((r * 2 ^ c) % den, den, c, m - 1)

\* the first m * c binary digits of r/den
RECURSIVE FracChunks(_, _, _, _)
FracChunks(r, den, c, m) ==
    IF m = 0 THEN <<>>
    ELSE IntBits((r * 2 ^ c) \div den, c)
             \o FracChunks((r * 2 ^ c) % den, den, c, m - 1)

\* what is left of r/den below its first n binary digits, as a numerator
\* over den (0 <= r < den)
FracRest(r, den, n) ==
    LET c == ChunkBits(den)
    IN (FracChunkRest(r, den, c, n \div c) * 2 ^ (n % c)) % den

\* the first n binary digits of r/den (0 <= r < den)
FracBits(r, den, n) ==
    LET c == ChunkBits(den)
    IN SubSeq(FracChunks(r, den, c, (n + c - 1) \div c), 1, n)

\* the number of zeros in front of the first one
LeadingZeros(bits) ==
    IF \A i \in 1..Len(bits) : bits[i] = 0 THEN Len(bits)
    ELSE (CHOOSE i \in 1..Len(bits) :
              bits[i] = 1 /\ \A j \in 1..(i - 1) : bits[j] = 0) - 1

\* the number of zero binary digits r/den starts with (0 < r < den)
RECURSIVE LeadingZerosOf(_, _)
LeadingZerosOf(r, den) ==
    IF 2 * r >= den THEN 0 ELSE 1 + LeadingZerosOf(2 * r, den)

\* bits without its trailing zeros
StripZeros(bits) ==
    IF \A i \in 1..Len(bits) : bits[i] = 0 THEN <<>>
    ELSE SubSeq(bits, 1, CHOOSE i \in 1..Len(bits) :
                             bits[i] = 1 /\ \A j \in (i + 1)..Len(bits) : bits[j] = 0)

\* bits + one unit in the last place: [bits, carry]
Increment(bits) ==
    IF \A i \in 1..Len(bits) : bits[i] = 1
    THEN [bits |-> [i \in 1..Len(bits) |-> 0], carry |-> 1]
    ELSE LET z == CHOOSE j \in 1..Len(bits) :
                      bits[j] = 0 /\ \A i \in (j + 1)..Len(bits) : bits[i] = 1
         IN [bits |-> [i \in 1..Len(bits) |->
                          IF i < z THEN bits[i] ELSE IF i = z THEN 1 ELSE 0],
             carry |-> 0]

\* the double nearest to int + 0.bits (+ something below the last bit when
\* sticky), ties to even
RoundToDouble(neg, int, bits, sticky) ==
    LET keep == IF int > 0 THEN SignificantBits - BitLen(int)
                ELSE LeadingZeros(bits) + SignificantBits
    IN IF Len(bits) <= keep
       THEN LET f == StripZeros(bits)
            IN [ok |-> TRUE, neg |-> neg /\ (int > 0 \/ f # <<>>), int |-> int, frac |-> f]
       ELSE LET kept == SubSeq(bits, 1, keep)
                below == sticky \/ \E i \in (keep + 2)..Len(bits) : bits[i] = 1
                odd == IF keep > 0 THEN kept[keep] = 1 ELSE int % 2 = 1
                up == bits[keep + 1] = 1 /\ (below \/ odd)
                r == IF up THEN Increment(kept) ELSE [bits |-> kept, carry |-> 0]
            IN [ok |-> TRUE, neg |-> neg, int |-> int + r.carry, frac |-> StripZeros(r.bits)]

\* float(s) for decimal literals.  The strings of the model are written with
\* digits, ".", ":", a sign and letters that are no part of a number;
\* exponents, "inf", "nan", blanks and "_" do not occur in them, and a
\* number has at most nine digits before the point and eight after it.
PyFloat(s) ==
    LET u == Unsigned(s)
        p == Split(u.rest, ".")
        whole == p[1]
        frac == IF Len(p) = 2 THEN p[2] ELSE <<>>
    IN IF /\ Len(p) <= 2
          /\ AllDigits(whole) /\ AllDigits(frac)
          /\ Len(whole) + Len(frac) > 0
       THEN LET w == DecVal(whole)
                f == DecVal(frac)
                den == Pow10(Len(frac))
                n == IF f = 0 THEN 0
                     ELSE IF w > 0 THEN SignificantBits - BitLen(w) + 1
                     ELSE LeadingZerosOf(f, den) + SignificantBits + 1
            IN RoundToDouble(u.neg, w, FracBits(f, den, n), FracRest(f, den, n) # 0)
       ELSE NoDouble

\* a < b on the magnitudes of two doubles
MagLt(a, b) ==
    \/ a.int < b.int
    \/ /\ a.int = b.int
       /\ \E i \in 1..Len(b.frac) :
              /\ b.frac[i] = 1
              /\ (i > Len(a.frac) \/ a.frac[i] = 0)
              /\ \A j \in 1..(i - 1) :
                     (IF j <= Len(a.frac) THEN a.frac[j] ELSE 0) = b.frac[j]

\* a < b on doubles
Lt(a, b) ==
    IF a.neg # b.neg THEN a.neg
    ELSE IF a.neg THEN MagLt(b, a) ELSE MagLt(a, b)

\* i + x for an integer i and a double x: the exact sum, rounded
AddInt(i, x) ==
    LET ineg == i < 0
        iabs == IF ineg THEN 0 - i ELSE i
    IN IF iabs = 0 THEN x
       ELSE IF ineg = x.neg \/ (x.int = 0 /\ x.frac = <<>>)
       THEN RoundToDouble(ineg, iabs + x.int, x.frac, FALSE)
       ELSE IF iabs > x.int
       THEN IF x.frac = <<>>
            THEN RoundToDouble(ineg, iabs - x.int, <<>>, FALSE)
            ELSE RoundToDouble(ineg, iabs - x.int - 1,
                               [k \in 1..Len(x.frac) |->
                                   IF k < Len(x.frac) THEN 1 - x.frac[k] ELSE 1],
                               FALSE)
       ELSE RoundToDouble(x.neg, x.int - iabs, x.frac, FALSE)

(***************************************************************************)
(* Time codec, app.py:289-293.                                             *)
(***************************************************************************)
\* time_to_seconds(time_str): a double; ok = FALSE stands for the
\* ValueError of the unpacking, of int() or of float()
time_to_seconds(time_str) ==
    IF Contains(time_str, ":")
    THEN LET parts == Split(time_str, ":")
         IN IF Len(parts) # 2 THEN NoDouble
            ELSE LET m == PyInt(parts[1])
                     s == PyFloat(parts[2])
                 IN IF m.ok /\ s.ok THEN AddInt(m.v * 60, s) ELSE NoDouble
    ELSE PyFloat(time_str)

\* min(list) as Python computes it: the first of the smallest
RECURSIVE PyMin(_)
PyMin(seq) ==
    IF Len(seq) = 1 THEN seq[1]
    ELSE LET m == PyMin(SubSeq(seq, 1, Len(seq) - 1))
         IN IF Lt(seq[Len(seq)], m) THEN seq[Len(seq)] ELSE m

(***************************************************************************)
(* Responses and persistence.                                              *)
(***************************************************************************)
\* jsonify(body), status
Reply(status, body) == [status |-> status, body |-> body]

\* jsonify({'error': msg}), status
Error(status, msg) == Reply(status, [error |-> msg])

\* an exception that escapes the handler: Flask answers 500, nothing is written
Crash == Error(500, "Internal Server Error")

\* the request threads of the development server, and a thread that is not
\* inside a handler
Threads == {1, 2}
Idle == [pc |-> "idle", served |-> 0]

\* A file, and the text in the buffer of a file, is the record
\* [data, len, size]: it is size characters long and begins with the JSON
\* text of the list data, which is len characters long (len is 0 when it
\* begins with no JSON text); what follows is what an earlier, longer text
\* left behind.  json.load gives data when the file is that text and no
\* more, and fails otherwise ("Expecting value", or "Extra data").
\* len(str(v)) for an int
RECURSIVE DecLen(_)
DecLen(v) ==
    IF v < 0 THEN 1 + DecLen(0 - v)
    ELSE IF v < 10 THEN 1 ELSE 1 + DecLen(v \div 10)

\* the length of a value as json.dump writes it: an int, true or false, or
\* a string between quotes (the strings of the model need no escapes)
ValueLen(k, v) ==
    IF k \in {"id", "age", "swimmer_id", "meet_id"} THEN DecLen(v)
    ELSE IF k = "isPB" THEN (IF v THEN 4 ELSE 5)
    ELSE Len(v) + 2

\* the members of a dict with indent=2, one below the list: four blanks,
\* "key": value, and ",\n" between two of them
RECURSIVE MembersLen(_, _)
MembersLen(d, keys) ==
    IF keys = {} THEN 0
    ELSE LET k == CHOOSE x \in keys : TRUE
         IN 4 + (Len(k) + 2) + 2 + ValueLen(k, d[k])
              + (IF keys = {k} THEN 0 ELSE 2)
              + MembersLen(d, keys \ {k})

\* a dict of the list: two blanks, "{\n", the members, "\n  }"
DictLen(d) ==
    IF DOMAIN d = {} THEN 4 ELSE 4 + MembersLen(d, DOMAIN d) + 4

\* len(json.dumps(data, indent=2)) for a list of dicts
TextLen(data) ==
    LET L[i \in 0..Len(data)] ==
            IF i = 0 THEN 0
            ELSE L[i - 1] + DictLen(data[i]) + (IF i = 1 THEN 0 ELSE 2)
    IN IF Len(data) = 0 THEN 2 ELSE 2 + L[Len(data)] + 2

\* the file json.dump(data) is the whole text of
TextOf(data) == [data |-> data, len |-> TextLen(data), size |-> TextLen(data)]

\* the text json.dump writes for a list that held records when the dump
\* began and none when its loop read it: "[" and the indent go out with
\* the first record, so it is "\n]" alone, which is no JSON text
EmptiedDump == [data |-> <<>>, len |-> 0, size |-> Len("\n") + Len("]")]

\* open(path, 'w') (line 25): the file is truncated
Truncated == [data |-> <<>>, len |-> 0, size |-> 0]

\* leaving the with block (line 26): the buffered text buf is written from
\* the start of the file, over what the file holds by then
Overwritten(file, buf) ==
    [data |-> buf.data, len |-> buf.len,
     size |-> IF buf.size >= file.size THEN buf.size ELSE file.size]

\* json.load reads the file
Loads(file) == file.len > 0 /\ file.size = file.len

\* save_data(filename, data) run without interruption: the file holds the
\* text of the collection
save_data(file, data) == file = TextOf(data)

\* [x['id'] for x in coll]
ids_of(coll) == [i \in 1..Len(coll) |-> coll[i].id]

\* the maximum without the + 1: the newest record's id is handed out again
max_plus_one_unincremented(ids) == MaxOf(ids)

\* max(ids) + 1 for a list of ids that is not empty
max_plus_one(ids) == MaxOf(ids) + 1

\* len(coll) + 1 for the next id: an id still in use is handed out again
\* once a record below the newest was deleted
next_id_by_length(coll) == Len(coll) + 1

\* max([x['id'] for x in coll]) + 1 if coll else 1
next_id(coll) ==
    IF Len(coll) > 0 THEN max_plus_one(ids_of(coll)) ELSE 1

(***************************************************************************)
(* Age classifier, app.py:59-83.                                           *)
(***************************************************************************)
\* age_group with the second test written < 24: 24 falls into "25-29"
age_group_off_by_one(age) ==
    IF age < 18 THEN "Youth"
    ELSE IF age < 24 THEN "18-24"
    ELSE IF age <= 29 THEN "25-29"
    ELSE IF age <= 34 THEN "30-34"
    ELSE IF age <= 39 THEN "35-39"
    ELSE IF age <= 44 THEN "40-44"
    ELSE IF age <= 49 THEN "45-49"
    ELSE IF age <= 54 THEN "50-54"
    ELSE IF age <= 59 THEN "55-59"
    ELSE IF age <= 64 THEN "60-64"
    ELSE IF age <= 69 THEN "65-69"
    ELSE "70+"

age_group(age) ==
    IF age < 18 THEN "Youth"
    ELSE IF age <= 24 THEN "18-24"
    ELSE IF age <= 29 THEN "25-29"
    ELSE IF age <= 34 THEN "30-34"
    ELSE IF age <= 39 THEN "35-39"
    ELSE IF age <= 44 THEN "40-44"
    ELSE IF age <= 49 THEN "45-49"
    ELSE IF age <= 54 THEN "50-54"
    ELSE IF age <= 59 THEN "55-59"
    ELSE IF age <= 64 THEN "60-64"
    ELSE IF age <= 69 THEN "65-69"
    ELSE "70+"

(***************************************************************************)
(* Swimmer registry, app.py:39-112.                                        *)
(***************************************************************************)
swimmer_required == {"name", "age", "gender", "team"}

\* new_swimmer with its id (line 57) and its ageGroup (lines 59-83) set
swimmer_with_id(body, id) ==
    Put(Put(body, "id", id), "ageGroup", age_group(body.age))

\* the record POST /api/swimmers stores: id and ageGroup set over the body
new_swimmer_record(body) == swimmer_with_id(body, next_id(swimmers))

\* lower() left out: the comparison is case-sensitive
Lower_skipped(s) == s

\* str.lower() on ASCII letters
Lower(s) ==
    [i \in 1..Len(s) |->
        CASE s[i] = "A" -> "a" [] s[i] = "B" -> "b" [] s[i] = "C" -> "c" [] s[i] = "D" -> "d"
          [] s[i] = "E" -> "e" [] s[i] = "F" -> "f" [] s[i] = "G" -> "g" [] s[i] = "H" -> "h"
          [] s[i] = "I" -> "i" [] s[i] = "J" -> "j" [] s[i] = "K" -> "k" [] s[i] = "L" -> "l"
          [] s[i] = "M" -> "m" [] s[i] = "N" -> "n" [] s[i] = "O" -> "o" [] s[i] = "P" -> "p"
          [] s[i] = "Q" -> "q" [] s[i] = "R" -> "r" [] s[i] = "S" -> "s" [] s[i] = "T" -> "t"
          [] s[i] = "U" -> "u" [] s[i] = "V" -> "v" [] s[i] = "W" -> "w" [] s[i] = "X" -> "x"
          [] s[i] = "Y" -> "y" [] s[i] = "Z" -> "z"
          [] OTHER -> s[i]]

\* index of next((s for s in swimmers if s['id'] == swimmer_id), None), 0 for None
find_swimmer(swimmer_id) ==
    FirstIdx([i \in 1..Len(swimmers) |-> swimmers[i].id = swimmer_id])

\* GET /api/swimmers; args = request.args, with or without the key team
handle_swimmers_GET(args) ==
    /\ request' = [op |-> "GET /api/swimmers", args |-> args]
    /\ response' =
         \* team = request.args.get('team'); if team: (None and '' are falsy)
         IF Has(args, "team") /\ args.team # <<>>
         THEN Reply(200, Filter(swimmers,
                  [i \in 1..Len(swimmers) |-> Lower(swimmers[i].team) = Lower(args.team)]))
         ELSE Reply(200, swimmers)
    /\ UNCHANGED <<swimmers, events, races, swimmers_file, races_file, inflight>>

\* POST /api/swimmers; req = [is_json, json]
handle_swimmers_POST(req) ==
    /\ request' = [op |-> "POST /api/swimmers", is_json |-> req.is_json, json |-> req.json]
    /\ IF ~req.is_json
       THEN /\ response' = Error(400, "Request body must be JSON")
            /\ UNCHANGED <<swimmers, swimmers_file>>
       ELSE IF ~(\A field \in swimmer_required : Has(req.json, field))
       THEN /\ response' = Error(400, "Missing required fields")
            /\ UNCHANGED <<swimmers, swimmers_file>>
       ELSE /\ swimmers' = Append(swimmers, new_swimmer_record(req.json))
            /\ save_data(swimmers_file', swimmers')
            /\ response' = Reply(201, swimmers'[Len(swimmers')])
    /\ UNCHANGED <<events, races, races_file, inflight>>

\* GET /api/swimmers/<id>
handle_swimmer_GET(swimmer_id) ==
    /\ request' = [op |-> "GET /api/swimmers/<id>", swimmer_id |-> swimmer_id]
    /\ response' =
         IF find_swimmer(swimmer_id) # 0
         THEN Reply(200, swimmers[find_swimmer(swimmer_id)])
         ELSE Error(404, "Swimmer not found")
    /\ UNCHANGED <<swimmers, events, races, swimmers_file, races_file, inflight>>

\* the update followed by a reclassification when the body carries an age
updated_swimmers_reclassified(swimmer_id, json) ==
    [swimmers EXCEPT ![find_swimmer(swimmer_id)] =
        IF Has(json, "age")
        THEN Put(Update(@, json), "ageGroup", age_group(json.age))
        ELSE Update(@, json)]

\* swimmer.update(request.json or {}) on the record found
updated_swimmers(swimmer_id, json) ==
    [swimmers EXCEPT ![find_swimmer(swimmer_id)] = Update(@, json)]

\* PUT /api/swimmers/<id>; json is the body's object ({} for null)
handle_swimmer_PUT(swimmer_id, json) ==
    /\ request' = [op |-> "PUT /api/swimmers/<id>", swimmer_id |-> swimmer_id, json |-> json]
    /\ IF find_swimmer(swimmer_id) = 0
       THEN /\ response' = Error(404, "Swimmer not found")
            /\ UNCHANGED <<swimmers, swimmers_file>>
       ELSE /\ swimmers' = updated_swimmers(swimmer_id, json)
            /\ save_data(swimmers_file', swimmers')
            /\ response' = Reply(200, swimmers'[find_swimmer(swimmer_id)])
    /\ UNCHANGED <<events, races, races_file, inflight>>

\* the deletion that also removes the races stored under the deleted id
handle_swimmer_DELETE_cascading(swimmer_id) ==
    /\ request' = [op |-> "DELETE /api/swimmers/<id>", swimmer_id |-> swimmer_id]
    /\ IF find_swimmer(swimmer_id) = 0
       THEN /\ response' = Error(404, "Swimmer not found")
            /\ UNCHANGED <<swimmers, swimmers_file, races, races_file>>
       ELSE /\ swimmers' = RemoveAt(swimmers, find_swimmer(swimmer_id))
            /\ save_data(swimmers_file', swimmers')
            /\ races' = Filter(races, [i \in 1..Len(races) |->
                                          races[i].swimmer_id # swimmer_id])
            /\ save_data(races_file', races')
            /\ response' = Reply(200, [message |-> "Swimmer deleted"])
    /\ UNCHANGED <<events, inflight>>

\* the deletion without its save_data: the file keeps the deleted record
handle_swimmer_DELETE_unsaved(swimmer_id) ==
    /\ request' = [op |-> "DELETE /api/swimmers/<id>", swimmer_id |-> swimmer_id]
    /\ IF find_swimmer(swimmer_id) = 0
       THEN /\ response' = Error(404, "Swimmer not found")
            /\ UNCHANGED swimmers
       ELSE /\ swimmers' = RemoveAt(swimmers, find_swimmer(swimmer_id))
            /\ response' = Reply(200, [message |-> "Swimmer deleted"])
    /\ UNCHANGED <<events, races, races_file, swimmers_file, inflight>>

\* DELETE /api/swimmers/<id>
handle_swimmer_DELETE(swimmer_id) ==
    /\ request' = [op |-> "DELETE /api/swimmers/<id>", swimmer_id |-> swimmer_id]
    /\ IF find_swimmer(swimmer_id) = 0
       THEN /\ response' = Error(404, "Swimmer not found")
            /\ UNCHANGED <<swimmers, swimmers_file>>
       ELSE /\ swimmers' = RemoveAt(swimmers, find_swimmer(swimmer_id))
            /\ save_data(swimmers_file', swimmers')
            /\ response' = Reply(200, [message |-> "Swimmer deleted"])
    /\ UNCHANGED <<events, races, races_file, inflight>>

(***************************************************************************)
(* Race ledger, app.py:119-168.                                            *)
(***************************************************************************)
\* the required list with meet_id forgotten
race_required_short == {"swimmer_id", "event", "time"}

race_required == {"swimmer_id", "event", "time", "meet_id"}

\* GET /api/races?event=&meet_id=&swimmer_id= ; int() of a numeric parameter
\* that is not a number raises
handle_races_GET(event, meet_id, swimmer_id) ==
    /\ request' = [op |-> "GET /api/races", event |-> event,
                   meet_id |-> meet_id, swimmer_id |-> swimmer_id]
    /\ response' =
         LET f1 == IF event # ""
                   THEN Filter(races, [i \in 1..Len(races) |-> races[i].event = event])
                   ELSE races
             f2 == IF meet_id # <<>>
                   THEN Filter(f1, [i \in 1..Len(f1) |-> f1[i].meet_id = PyInt(meet_id).v])
                   ELSE f1
             f3 == IF swimmer_id # <<>>
                   THEN Filter(f2, [i \in 1..Len(f2) |->
                                       f2[i].swimmer_id = PyInt(swimmer_id).v])
                   ELSE f2
         \* int(...) is evaluated once per record of the list being filtered:
         \* a malformed number raises only when that list is not empty
         IN IF meet_id # <<>> /\ f1 # <<>> /\ ~PyInt(meet_id).ok THEN Crash
            ELSE IF swimmer_id # <<>> /\ f2 # <<>> /\ ~PyInt(swimmer_id).ok THEN Crash
            ELSE Reply(200, f3)
    /\ UNCHANGED <<swimmers, events, races, swimmers_file, races_file, inflight>>

\* every time_to_seconds(r['time']) over the list returns (none raises)
all_parse(rs) == \A i \in 1..Len(rs) : time_to_seconds(rs[i].time).ok

\* the races existing_times is computed from
prior_races(swimmer_id, event) ==
    Filter(races, [i \in 1..Len(races) |->
               races[i].swimmer_id = swimmer_id /\ races[i].event = event])

\* [time_to_seconds(r['time']) for r in races
\*      if r['swimmer_id'] == swimmer_id and r['event'] == event]
existing_times(swimmer_id, event) ==
    LET prior == prior_races(swimmer_id, event)
    IN [i \in 1..Len(prior) |-> time_to_seconds(prior[i].time)]

\* the parse of line 150 never raising: any string is taken as a time
time_raises_never(body) == FALSE

\* lines 150-156 raise: time_to_seconds of the submitted time, or of the
\* time of a stored race of the same swimmer and event, raises ValueError
time_raises(body) ==
    \/ ~time_to_seconds(body.time).ok
    \/ ~all_parse(prior_races(body.swimmer_id, body.event))

\* is_pb with <= for <: a time equal to the best counts as a personal best
is_pb_ties(new_time_seconds, existing) ==
    Len(existing) = 0 \/ ~Lt(PyMin(existing), new_time_seconds)

\* is_pb against the latest earlier time instead of the least
is_pb_against_latest(new_time_seconds, existing) ==
    Len(existing) = 0 \/ Lt(new_time_seconds, existing[Len(existing)])

\* is_pb without the test for an empty history
is_pb_no_first(new_time_seconds, existing) ==
    Len(existing) > 0 /\ Lt(new_time_seconds, PyMin(existing))

\* len(existing_times) == 0 or new_time_seconds < min(existing_times)
is_pb(new_time_seconds, existing) ==
    Len(existing) = 0 \/ Lt(new_time_seconds, PyMin(existing))

\* lines 148-164 on a new_race that has its id: isPB and a default date set
classified_race(r1, today) ==
    LET r2 == Put(r1, "isPB",
                  is_pb(time_to_seconds(r1.time),
                        existing_times(r1.swimmer_id, r1.event)))
    IN IF Has(r2, "date") THEN r2 ELSE Put(r2, "date", today)

\* the record POST /api/races stores: id, isPB and a default date set over the body
new_race_record(body, today) ==
    classified_race(Put(body, "id", next_id(races)), today)

\* POST /api/races; req = [is_json, json]; today = datetime.now() as YYYY-MM-DD
handle_races_POST(req, today) ==
    /\ request' = [op |-> "POST /api/races", is_json |-> req.is_json, json |-> req.json]
    /\ IF ~req.is_json
       THEN /\ response' = Error(400, "Request body must be JSON")
            /\ UNCHANGED <<races, races_file>>
       ELSE IF ~(\A field \in race_required : Has(req.json, field))
       THEN /\ response' = Error(400, "Missing required fields")
            /\ UNCHANGED <<races, races_file>>
       ELSE IF time_raises(req.json)
       THEN /\ response' = Crash
            /\ UNCHANGED <<races, races_file>>
       ELSE /\ races' = Append(races, new_race_record(req.json, today))
            /\ save_data(races_file', races')
            /\ response' = Reply(201, races'[Len(races')])
    /\ UNCHANGED <<swimmers, events, swimmers_file, inflight>>

(***************************************************************************)
(* Rankings, app.py:175-233.                                               *)
(***************************************************************************)
\* best_times without the comparison: the first race of each swimmer stays
RECURSIVE best_times_first_kept(_)
best_times_first_kept(event_races) ==
    IF Len(event_races) = 0 THEN <<>>
    ELSE LET before == best_times_first_kept(SubSeq(event_races, 1, Len(event_races) - 1))
             race == event_races[Len(event_races)]
             sid == race.swimmer_id
             entry == [sid |-> sid,
                       time |-> race.time,
                       seconds |-> time_to_seconds(race.time),
                       meet |-> Get(race, "meet_name", "Unknown"),
                       date |-> Get(race, "date", "Unknown")]
             k == FirstIdx([i \in 1..Len(before) |-> before[i].sid = sid])
         IN IF k = 0 THEN Append(before, entry) ELSE before

\* best_times with <= for <: of equal best times the last race wins
RECURSIVE best_times_last_wins(_)
best_times_last_wins(event_races) ==
    IF Len(event_races) = 0 THEN <<>>
    ELSE LET before == best_times_last_wins(SubSeq(event_races, 1, Len(event_races) - 1))
             race == event_races[Len(event_races)]
             sid == race.swimmer_id
             time_seconds == time_to_seconds(race.time)
             entry == [sid |-> sid,
                       time |-> race.time,
                       seconds |-> time_seconds,
                       meet |-> Get(race, "meet_name", "Unknown"),
                       date |-> Get(race, "date", "Unknown")]
             k == FirstIdx([i \in 1..Len(before) |-> before[i].sid = sid])
         IN IF k = 0 THEN Append(before, entry)
            ELSE IF ~Lt(before[k].seconds, time_seconds)
                 THEN [before EXCEPT ![k] = entry]
                 ELSE before

\* best_times after the loop of lines 190-201 over event_races: a dict keyed
\* by swimmer id in insertion order, kept as the list of its items
RECURSIVE best_times(_)
best_times(event_races) ==
    IF Len(event_races) = 0 THEN <<>>
    ELSE LET before == best_times(SubSeq(event_races, 1, Len(event_races) - 1))
             race == event_races[Len(event_races)]
             sid == race.swimmer_id
             time_seconds == time_to_seconds(race.time)
             entry == [sid |-> sid,
                       time |-> race.time,
                       seconds |-> time_seconds,
                       meet |-> Get(race, "meet_name", "Unknown"),
                       date |-> Get(race, "date", "Unknown")]
             k == FirstIdx([i \in 1..Len(before) |-> before[i].sid = sid])
         IN IF k = 0 THEN Append(before, entry)
            ELSE IF Lt(time_seconds, before[k].seconds)
                 THEN [before EXCEPT ![k] = entry]
                 ELSE before

\* the join without its skip: a best time of an id the registry does not
\* hold is listed with placeholders for the swimmer's fields
RECURSIVE build_rankings_unjoined(_, _, _)
build_rankings_unjoined(best, gender, age_group_arg) ==
    IF Len(best) = 0 THEN <<>>
    ELSE LET before == build_rankings_unjoined(SubSeq(best, 1, Len(best) - 1),
                                               gender, age_group_arg)
             time_data == best[Len(best)]
             k == find_swimmer(time_data.sid)
             swimmer == IF k = 0
                        THEN [name |-> "Unknown", team |-> <<>>, age |-> 0,
                              gender |-> gender, ageGroup |-> age_group_arg]
                        ELSE swimmers[k]
         IN IF gender # "" /\ swimmer.gender # gender THEN before
            ELSE IF /\ age_group_arg # ""
                    /\ (~Has(swimmer, "ageGroup") \/ swimmer.ageGroup # age_group_arg)
                 THEN before
            ELSE Append(before,
                        [rank |-> 0,
                         swimmer_id |-> time_data.sid,
                         name |-> swimmer.name,
                         team |-> swimmer.team,
                         age |-> swimmer.age,
                         ageGroup |-> Get(swimmer, "ageGroup", "Unknown"),
                         time |-> time_data.time,
                         meet |-> time_data.meet,
                         date |-> time_data.date])

\* the loop of lines 204-226: join with the registry, filter, build the entries
RECURSIVE build_rankings(_, _, _)
build_rankings(best, gender, age_group_arg) ==
    IF Len(best) = 0 THEN <<>>
    ELSE LET before == build_rankings(SubSeq(best, 1, Len(best) - 1), gender, age_group_arg)
             time_data == best[Len(best)]
             k == find_swimmer(time_data.sid)
             swimmer == swimmers[k]
         IN IF k = 0 THEN before
            ELSE IF gender # "" /\ swimmer.gender # gender THEN before
            ELSE IF /\ age_group_arg # ""
                    /\ (~Has(swimmer, "ageGroup") \/ swimmer.ageGroup # age_group_arg)
                 THEN before
            ELSE Append(before,
                        [rank |-> 0,
                         swimmer_id |-> time_data.sid,
                         name |-> swimmer.name,
                         team |-> swimmer.team,
                         age |-> swimmer.age,
                         ageGroup |-> Get(swimmer, "ageGroup", "Unknown"),
                         time |-> time_data.time,
                         meet |-> time_data.meet,
                         date |-> time_data.date])

\* the sort left out: the entries stay in best_times order
sort_by_time_skipped(rankings) == rankings

\* list.sort(key=lambda x: time_to_seconds(x['time'])): stable, ascending
RECURSIVE sort_by_time(_)
sort_by_time(rankings) ==
    IF Len(rankings) = 0 THEN <<>>
    ELSE LET sorted == sort_by_time(SubSeq(rankings, 1, Len(rankings) - 1))
             x == rankings[Len(rankings)]
             \* x goes after every element whose key is not greater than its own
             n == Cardinality({i \in 1..Len(sorted) :
                       ~Lt(time_to_seconds(x.time), time_to_seconds(sorted[i].time))})
         IN SubSeq(sorted, 1, n) \o <<x>> \o SubSeq(sorted, n + 1, Len(sorted))

\* ranking['rank'] = i + 1
assign_ranks(rankings) ==
    [i \in 1..Len(rankings) |-> [rankings[i] EXCEPT !.rank = i]]

\* event_races = [r for r in races if r['event'] == event]
event_races_of(event) ==
    Filter(races, [i \in 1..Len(races) |-> races[i].event = event])

\* the array GET /api/rankings returns for a non-empty event
rankings_of(event, gender, age_group_arg) ==
    assign_ranks(sort_by_time(
        build_rankings(best_times(event_races_of(event)), gender, age_group_arg)))

\* GET /api/rankings?event=&gender=&ageGroup=
get_rankings(event, gender, age_group_arg) ==
    /\ request' = [op |-> "GET /api/rankings", event |-> event,
                   gender |-> gender, ageGroup |-> age_group_arg]
    /\ response' =
         IF event = "" THEN Error(400, "Event parameter required")
         \* line 193 parses the time of every race of the event
         ELSE IF ~all_parse(event_races_of(event)) THEN Crash
         ELSE Reply(200, rankings_of(event, gender, age_group_arg))
    /\ UNCHANGED <<swimmers, events, races, swimmers_file, races_file, inflight>>

(***************************************************************************)
(* Personal bests, app.py:240-273.                                         *)
(***************************************************************************)
\* pbs_of with <= for <: of equal best times the last race wins
RECURSIVE pbs_of_last_wins(_)
pbs_of_last_wins(swimmer_races) ==
    IF Len(swimmer_races) = 0 THEN EmptyDict
    ELSE LET pbs == pbs_of_last_wins(SubSeq(swimmer_races, 1, Len(swimmer_races) - 1))
             race == swimmer_races[Len(swimmer_races)]
             event == race.event
             time == race.time
             time_seconds == time_to_seconds(time)
             entry == [time |-> time,
                       meet |-> Get(race, "meet_name", "Unknown"),
                       date |-> Get(race, "date", "Unknown")]
         IN IF ~Has(pbs, event) THEN Put(pbs, event, entry)
            ELSE IF ~Lt(time_to_seconds(pbs[event].time), time_seconds)
                 THEN Put(pbs, event, entry)
                 ELSE pbs

\* pbs after the loop of lines 251-271 over swimmer_races
RECURSIVE pbs_of(_)
pbs_of(swimmer_races) ==
    IF Len(swimmer_races) = 0 THEN EmptyDict
    ELSE LET pbs == pbs_of(SubSeq(swimmer_races, 1, Len(swimmer_races) - 1))
             race == swimmer_races[Len(swimmer_races)]
             event == race.event
             time == race.time
             time_seconds == time_to_seconds(time)
             entry == [time |-> time,
                       meet |-> Get(race, "meet_name", "Unknown"),
                       date |-> Get(race, "date", "Unknown")]
         IN IF ~Has(pbs, event) THEN Put(pbs, event, entry)
            ELSE IF Lt(time_seconds, time_to_seconds(pbs[event].time))
                 THEN Put(pbs, event, entry)
                 ELSE pbs

\* swimmer_races = [r for r in races if r['swimmer_id'] == swimmer_id]
swimmer_races_of(swimmer_id) ==
    Filter(races, [i \in 1..Len(races) |-> races[i].swimmer_id = swimmer_id])

\* the mapping GET /api/swimmers/<id>/pbs returns
personal_bests(swimmer_id) ==
    LET swimmer_races == swimmer_races_of(swimmer_id)
    IN IF Len(swimmer_races) = 0 THEN EmptyDict ELSE pbs_of(swimmer_races)

\* the read that also writes its result back: every race of the swimmer gets
\* isPB set to whether its time is the best of its event
get_personal_bests_marking(swimmer_id) ==
    /\ request' = [op |-> "GET /api/swimmers/<id>/pbs", swimmer_id |-> swimmer_id]
    /\ response' =
         IF ~all_parse(swimmer_races_of(swimmer_id)) THEN Crash
         ELSE Reply(200, personal_bests(swimmer_id))
    /\ races' = [i \in 1..Len(races) |->
                    IF races[i].swimmer_id = swimmer_id
                    THEN [races[i] EXCEPT !.isPB =
                             (races[i].time = personal_bests(swimmer_id)[races[i].event].time)]
                    ELSE races[i]]
    /\ UNCHANGED <<swimmers, events, swimmers_file, races_file, inflight>>

\* GET /api/swimmers/<id>/pbs
get_personal_bests(swimmer_id) ==
    /\ request' = [op |-> "GET /api/swimmers/<id>/pbs", swimmer_id |-> swimmer_id]
    /\ response' =
         \* line 256 parses the time of every race of the swimmer
         IF ~all_parse(swimmer_races_of(swimmer_id)) THEN Crash
         ELSE Reply(200, personal_bests(swimmer_id))
    /\ UNCHANGED <<swimmers, events, races, swimmers_file, races_file, inflight>>

(***************************************************************************)
(* Events and health, app.py:280-307.                                      *)
(***************************************************************************)
\* GET /api/events
get_events ==
    /\ request' = [op |-> "GET /api/events"]
    /\ response' = Reply(200, events)
    /\ UNCHANGED <<swimmers, events, races, swimmers_file, races_file, inflight>>

\* GET /api/health
health_check ==
    /\ request' = [op |-> "GET /api/health"]
    /\ response' = Reply(200, [status |-> "healthy",
                               swimmers_count |-> Len(swimmers),
                               races_count |-> Len(races),
                               events_count |-> Len(events)])
    /\ UNCHANGED <<swimmers, events, races, swimmers_file, races_file, inflight>>

(***************************************************************************)
(* The handlers on the threads of the development server (app.run,         *)
(* app.py:324: one thread per request, nothing locks the lists or the      *)
(* files).  A thread can be suspended between any two reads or writes of   *)
(* a list or a file, so each of these is a step of its own, the turns of   *)
(* a loop over swimmers included (a deletion moves the records the loop    *)
(* has not reached).  inflight[t] is the frame of thread t:                *)
(*   pc          where the thread stands                                   *)
(*   route       the handler it runs                                       *)
(*   overlapped  whether another request was in flight at any moment       *)
(*               since the thread entered the handler                      *)
(*   idx, seen   the position of the loop over swimmers and the ids it     *)
(*               has read for max()                                        *)
(*   ref, record the dict the thread holds (new_swimmer, swimmer,          *)
(*               new_race): its position in swimmers, or 0 and its value   *)
(*               when the dict is in no list (yet, or any more)            *)
(*   swimmer_id  the id in the path of the request                         *)
(*   best, pos   best_times and the item of it the loop of line 205 is at  *)
(*   rankings    the entries that loop has appended                        *)
(*   buf         the text json.dump has written to the buffer of the file, *)
(*               or jsonify(swimmers) to the reply                         *)
(*   body        what jsonify has read for the reply                       *)
(*   served      the requests the thread has taken                         *)
(* Bodies are valid JSON with the required fields and a time that parses.  *)
(* A loop over races is one step: nothing removes or changes a race, so    *)
(* what the loop has read when it ends is the ledger of that moment.       *)
(* json.dump(..., indent=2) and jsonify read a list record by record       *)
(* (json/encoder.py, _iterencode_list), and line 206 reads swimmers        *)
(* record by record for every best time.  A record is read in the turn     *)
(* that takes it from the list, at one moment: on the requests of          *)
(* NextThreads, whose updates change one field of one swimmer, this gives  *)
(* every outcome the code has.  The text of the model's lists fits the     *)
(* buffer of the file (8192 characters), so it reaches the file when the   *)
(* file is closed.                                                         *)
(***************************************************************************)
\* thread t enters a handler with frame f: its request and the requests in
\* flight by then overlap
Entered(t, f) ==
    [u \in Threads |->
        IF u = t
        THEN [f EXCEPT !.overlapped = \E v \in Threads \ {t} : inflight[v].pc # "idle",
                       !.served = inflight[t].served + 1]
        ELSE IF inflight[u].pc = "idle" THEN inflight[u]
        ELSE [inflight[u] EXCEPT !.overlapped = TRUE]]

\* thread t leaves its handler
Left(t) == [inflight EXCEPT ![t] = [pc |-> "idle", served |-> inflight[t].served]]

\* the dict a frame holds, as it is now
Deref(f) == IF f.ref > 0 THEN swimmers[f.ref] ELSE f.record

\* the frames after the record at position p was removed from swimmers: a
\* thread that holds it keeps the dict, the records behind it move up
AfterRemove(frames, p) ==
    [u \in Threads |->
        IF frames[u].pc = "idle" THEN frames[u]
        ELSE IF frames[u].ref = p
        THEN [frames[u] EXCEPT !.ref = 0, !.record = swimmers[p]]
        ELSE IF frames[u].ref > p
        THEN [frames[u] EXCEPT !.ref = @ - 1]
        ELSE frames[u]]

\* the frame of a request with body json that has read nothing yet
Frame(route, pc, json) ==
    [pc |-> pc, route |-> route, json |-> json, served |-> 0,
     overlapped |-> FALSE, idx |-> 0, seen |-> <<>>, found |-> FALSE, ref |-> 0,
     record |-> EmptyDict, buf |-> TextOf(<<>>), body |-> EmptyDict]

\* lines 49-57 on thread t, up to the test of "if swimmers"
swimmers_POST_test(t, req) ==
    /\ inflight[t].pc = "idle"
    /\ inflight' = Entered(t,
           IF Len(swimmers) > 0
           THEN [Frame("POST /api/swimmers", "ids", req.json) EXCEPT
                     !.record = req.json]
           ELSE [Frame("POST /api/swimmers", "append", req.json) EXCEPT
                     !.record = swimmer_with_id(req.json, 1)])
    /\ UNCHANGED <<swimmers, events, races, swimmers_file, races_file, request, response>>

\* line 57 on thread t, one turn of [s['id'] for s in swimmers]: the next
\* record's id is read, or the loop ends and max() + 1 and lines 59-83 follow;
\* max() of an empty list raises ValueError
swimmers_POST_ids(t) ==
    /\ inflight[t].pc = "ids" /\ inflight[t].route = "POST /api/swimmers"
    /\ IF inflight[t].idx < Len(swimmers)
       THEN /\ inflight' = [inflight EXCEPT
                               ![t].idx = @ + 1,
                               ![t].seen = Append(@, swimmers[inflight[t].idx + 1].id)]
            /\ UNCHANGED <<request, response>>
       ELSE IF inflight[t].seen = <<>>
       THEN /\ inflight' = Left(t)
            /\ request' = [op |-> "POST /api/swimmers", is_json |-> TRUE,
                           json |-> inflight[t].json]
            /\ response' = Crash
       ELSE /\ inflight' = [inflight EXCEPT
                               ![t].pc = "append",
                               ![t].idx = 0,
                               ![t].seen = <<>>,
                               ![t].record = swimmer_with_id(@, max_plus_one(inflight[t].seen))]
            /\ UNCHANGED <<request, response>>
    /\ UNCHANGED <<swimmers, events, races, swimmers_file, races_file>>

\* line 85 on thread t
swimmers_POST_append(t) ==
    /\ inflight[t].pc = "append" /\ inflight[t].route = "POST /api/swimmers"
    /\ swimmers' = Append(swimmers, inflight[t].record)
    /\ inflight' = [inflight EXCEPT ![t].pc = "open", ![t].ref = Len(swimmers) + 1]
    /\ UNCHANGED <<events, races, swimmers_file, races_file, request, response>>

\* lines 141-146 on thread t
races_POST_allocate(t, req) ==
    /\ inflight[t].pc = "idle"
    /\ inflight' = Entered(t,
           [Frame("POST /api/races", "classify", req.json) EXCEPT
                !.seen = ids_of(races),
                !.record = Put(req.json, "id", next_id(races))])
    /\ UNCHANGED <<swimmers, events, races, swimmers_file, races_file, request, response>>

\* lines 148-164 on thread t
races_POST_classify(t, today) ==
    /\ inflight[t].pc = "classify"
    /\ inflight' = [inflight EXCEPT ![t].pc = "append",
                                    ![t].record = classified_race(@, today)]
    /\ UNCHANGED <<swimmers, events, races, swimmers_file, races_file, request, response>>

\* line 166 on thread t
races_POST_append(t) ==
    /\ inflight[t].pc = "append" /\ inflight[t].route = "POST /api/races"
    /\ races' = Append(races, inflight[t].record)
    /\ inflight' = [inflight EXCEPT ![t].pc = "open"]
    /\ UNCHANGED <<swimmers, events, swimmers_file, races_file, request, response>>

\* one turn of next((s for s in swimmers if s['id'] == swimmer_id), None),
\* line 93: the next record is tested, or the list has ended (None)
find_turn(f) ==
    IF f.idx < Len(swimmers)
    THEN IF swimmers[f.idx + 1].id = f.swimmer_id
         THEN [f EXCEPT !.pc = "method", !.idx = 0, !.found = TRUE, !.ref = f.idx + 1]
         ELSE [f EXCEPT !.idx = @ + 1]
    ELSE [f EXCEPT !.pc = "method", !.idx = 0]

\* thread t enters handle_swimmer (method GET, PUT or DELETE) and takes the
\* first turn of line 93
handle_swimmer_enter(t, method, swimmer_id, json) ==
    /\ inflight[t].pc = "idle"
    /\ inflight' = Entered(t,
           find_turn([pc |-> "find", route |-> method, json |-> json,
                      served |-> 0, overlapped |-> FALSE, idx |-> 0, seen |-> <<>>,
                      found |-> FALSE, ref |-> 0, record |-> EmptyDict,
                      buf |-> TextOf(<<>>), body |-> EmptyDict,
                      swimmer_id |-> swimmer_id]))
    /\ UNCHANGED <<swimmers, events, races, swimmers_file, races_file, request, response>>

\* a later turn of line 93 on thread t
handle_swimmer_find(t) ==
    /\ inflight[t].pc = "find"
    /\ inflight' = [inflight EXCEPT ![t] = find_turn(@)]
    /\ UNCHANGED <<swimmers, events, races, swimmers_file, races_file, request, response>>

\* lines 95-98, 101-103 or 108-110 on thread t: the 404, jsonify(swimmer)
\* of GET, swimmer.update(...) on the dict found, in the list or not, or
\* swimmers.remove(swimmer), which removes the first record equal to the
\* dict found and raises ValueError when there is none
handle_swimmer_method(t) ==
    /\ inflight[t].pc = "method"
    /\ LET f == inflight[t]
           req == IF f.route = "PUT /api/swimmers/<id>"
                  THEN [op |-> f.route, swimmer_id |-> f.swimmer_id, json |-> f.json]
                  ELSE [op |-> f.route, swimmer_id |-> f.swimmer_id]
           p == FirstIdx([i \in 1..Len(swimmers) |-> swimmers[i] = Deref(f)])
       IN IF ~f.found
          THEN /\ request' = req
               /\ response' = Error(404, "Swimmer not found")
               /\ inflight' = Left(t)
               /\ UNCHANGED swimmers
          ELSE IF f.route = "GET /api/swimmers/<id>"
          THEN /\ inflight' = [inflight EXCEPT ![t].pc = "return", ![t].body = Deref(f)]
               /\ UNCHANGED <<swimmers, request, response>>
          ELSE IF f.route = "PUT /api/swimmers/<id>"
          THEN /\ IF f.ref > 0
                  THEN /\ swimmers' = [swimmers EXCEPT ![f.ref] = Update(@, f.json)]
                       /\ inflight' = [inflight EXCEPT ![t].pc = "open"]
                  ELSE /\ inflight' = [inflight EXCEPT ![t].pc = "open",
                                                       ![t].record = Update(@, f.json)]
                       /\ UNCHANGED swimmers
               /\ UNCHANGED <<request, response>>
          ELSE IF p = 0
          THEN /\ request' = req
               /\ response' = Crash
               /\ inflight' = Left(t)
               /\ UNCHANGED swimmers
          ELSE /\ swimmers' = RemoveAt(swimmers, p)
               /\ inflight' = AfterRemove([inflight EXCEPT ![t].pc = "open"], p)
               /\ UNCHANGED <<request, response>>
    /\ UNCHANGED <<events, races, swimmers_file, races_file>>

\* lines 210-226 for one item of best_times: the filters on the swimmer
\* found and the entry appended to rankings
rankings_append(rankings, swimmer, time_data, gender, age_group_arg) ==
    IF gender # "" /\ swimmer.gender # gender THEN rankings
    ELSE IF /\ age_group_arg # ""
            /\ (~Has(swimmer, "ageGroup") \/ swimmer.ageGroup # age_group_arg)
         THEN rankings
    ELSE Append(rankings,
                [rank |-> 0,
                 swimmer_id |-> time_data.sid,
                 name |-> swimmer.name,
                 team |-> swimmer.team,
                 age |-> swimmer.age,
                 ageGroup |-> Get(swimmer, "ageGroup", "Unknown"),
                 time |-> time_data.time,
                 meet |-> time_data.meet,
                 date |-> time_data.date])

\* the loop of line 205 goes to the next item of best_times, or has ended
\* and lines 229-233 sort, rank and hand the list to jsonify
rankings_next(f) ==
    IF f.pos < Len(f.best)
    THEN [f EXCEPT !.pc = "join", !.pos = @ + 1, !.idx = 0,
                   !.ref = 0, !.record = EmptyDict]
    ELSE [f EXCEPT !.pc = "return", !.idx = 0, !.ref = 0, !.record = EmptyDict,
                   !.body = assign_ranks(sort_by_time(f.rankings))]

\* line 187 on thread t, with lines 190-201 on what it has read
get_rankings_races(t, event, gender, age_group_arg) ==
    /\ inflight[t].pc = "idle"
    /\ inflight' = Entered(t,
           rankings_next(
               [pc |-> "join", route |-> "GET /api/rankings", json |-> EmptyDict,
                served |-> 0, overlapped |-> FALSE, idx |-> 0, seen |-> <<>>,
                found |-> FALSE, ref |-> 0, record |-> EmptyDict, buf |-> TextOf(<<>>),
                body |-> EmptyDict, event |-> event, gender |-> gender,
                ageGroup |-> age_group_arg,
                best |-> best_times(event_races_of(event)), pos |-> 0,
                rankings |-> <<>>]))
    /\ UNCHANGED <<swimmers, events, races, swimmers_file, races_file, request, response>>

\* line 206 on thread t, one turn of
\* next((s for s in swimmers if s['id'] == sid), None) for the item of
\* best_times the loop is at: the next record is tested and, when its id is
\* sid, held as swimmer; or the list has ended, swimmer is None and line 208
\* goes on with the next item
get_rankings_join(t) ==
    /\ inflight[t].pc = "join"
    /\ LET f == inflight[t]
           sid == f.best[f.pos].sid
       IN inflight' = [inflight EXCEPT ![t] =
              IF f.idx < Len(swimmers)
              THEN IF swimmers[f.idx + 1].id = sid
                   THEN [f EXCEPT !.pc = "entry", !.idx = 0, !.ref = f.idx + 1]
                   ELSE [f EXCEPT !.idx = @ + 1]
              ELSE rankings_next(f)]
    /\ UNCHANGED <<swimmers, events, races, swimmers_file, races_file, request, response>>

\* lines 210-226 on thread t: the dict held as swimmer is read, in the list
\* or not, for the filters and the entry
get_rankings_entry(t) ==
    /\ inflight[t].pc = "entry"
    /\ LET f == inflight[t]
       IN inflight' = [inflight EXCEPT ![t] =
              rankings_next([f EXCEPT !.rankings =
                  rankings_append(@, Deref(f), f.best[f.pos], f.gender, f.ageGroup)])]
    /\ UNCHANGED <<swimmers, events, races, swimmers_file, races_file, request, response>>

\* GET /api/races without parameters on thread t, lines 122-135:
\* jsonify(races)
races_GET_enter(t) ==
    /\ inflight[t].pc = "idle"
    /\ inflight' = Entered(t, [Frame("GET /api/races", "return", EmptyDict) EXCEPT
                                  !.body = races])
    /\ UNCHANGED <<swimmers, events, races, swimmers_file, races_file, request, response>>

\* GET /api/swimmers/<id>/pbs on thread t, lines 244-273
get_personal_bests_enter(t, swimmer_id) ==
    /\ inflight[t].pc = "idle"
    /\ inflight' = Entered(t,
           [pc |-> "return", route |-> "GET /api/swimmers/<id>/pbs", json |-> EmptyDict,
            served |-> 0, overlapped |-> FALSE, idx |-> 0, seen |-> <<>>,
            found |-> FALSE, ref |-> 0, record |-> EmptyDict, buf |-> TextOf(<<>>),
            body |-> personal_bests(swimmer_id), swimmer_id |-> swimmer_id])
    /\ UNCHANGED <<swimmers, events, races, swimmers_file, races_file, request, response>>

\* save_data, line 25 on thread t: open(..., 'w') truncates the file
save_data_open(t) ==
    /\ inflight[t].pc = "open"
    /\ IF inflight[t].route = "POST /api/races"
       THEN races_file' = Truncated /\ UNCHANGED swimmers_file
       ELSE swimmers_file' = Truncated /\ UNCHANGED races_file
    /\ inflight' = [inflight EXCEPT ![t].pc = "dump"]
    /\ UNCHANGED <<swimmers, events, races, request, response>>

\* the loop of json over swimmers begins: a list that is empty is written
\* as "[]" without a loop
iterencode_begin(f, done) ==
    IF Len(swimmers) = 0
    THEN [f EXCEPT !.pc = done, !.buf = TextOf(<<>>)]
    ELSE [f EXCEPT !.pc = "items", !.idx = 0, !.buf = TextOf(<<>>)]

\* save_data, line 26 on thread t: json.dump begins; the ledger is written
\* to the buffer in this step, the registry by the loop that follows
save_data_dump(t) ==
    /\ inflight[t].pc = "dump"
    /\ inflight' = [inflight EXCEPT
                       ![t] = IF @.route = "POST /api/races"
                              THEN [@ EXCEPT !.pc = "close", !.buf = TextOf(races)]
                              ELSE iterencode_begin(@, "close")]
    /\ UNCHANGED <<swimmers, events, races, swimmers_file, races_file, request, response>>

\* GET /api/swimmers without team on thread t, lines 42-46: jsonify(swimmers)
\* begins
swimmers_GET_enter(t) ==
    /\ inflight[t].pc = "idle"
    /\ inflight' = Entered(t,
           iterencode_begin(Frame("GET /api/swimmers", "items", EmptyDict), "return"))
    /\ UNCHANGED <<swimmers, events, races, swimmers_file, races_file, request, response>>

\* one turn of the loop of json over swimmers on thread t, in json.dump or
\* in jsonify(swimmers): the next record is written, or the list has ended
iterencode_list(t) ==
    /\ inflight[t].pc = "items"
    /\ LET f == inflight[t]
       IN inflight' = [inflight EXCEPT ![t] =
              IF f.idx < Len(swimmers)
              THEN [f EXCEPT !.idx = @ + 1,
                             !.buf = TextOf(Append(f.buf.data, swimmers[f.idx + 1]))]
              ELSE [f EXCEPT !.idx = 0,
                             !.pc = IF f.route = "GET /api/swimmers"
                                    THEN "return" ELSE "close",
                             !.buf = IF f.buf.data = <<>> THEN EmptiedDump ELSE @]]
    /\ UNCHANGED <<swimmers, events, races, swimmers_file, races_file, request, response>>

\* save_data, the end of the with block on thread t: the buffer is written
\* and the file closed
save_data_close(t) ==
    /\ inflight[t].pc = "close"
    /\ IF inflight[t].route = "POST /api/races"
       THEN /\ races_file' = Overwritten(races_file, inflight[t].buf)
            /\ UNCHANGED swimmers_file
       ELSE /\ swimmers_file' = Overwritten(swimmers_file, inflight[t].buf)
            /\ UNCHANGED races_file
    /\ inflight' = [inflight EXCEPT
                       ![t].pc = IF inflight[t].route \in {"POST /api/swimmers",
                                                          "PUT /api/swimmers/<id>"}
                                 THEN "jsonify" ELSE "return"]
    /\ UNCHANGED <<swimmers, events, races, request, response>>

\* lines 87 and 105 on thread t: jsonify reads the dict the thread holds
jsonify_swimmer(t) ==
    /\ inflight[t].pc = "jsonify"
    /\ inflight' = [inflight EXCEPT ![t].pc = "return", ![t].body = Deref(inflight[t])]
    /\ UNCHANGED <<swimmers, events, races, swimmers_file, races_file, request, response>>

\* the return of a handler on thread t: the reply leaves with what jsonify
\* has read (the new race and the message of DELETE are the thread's own).
\* jsonify sends the text of json.dumps and a newline: of a registry that
\* was emptied between the test and the loop of json that is no JSON text,
\* and the reply has the text in place of a body
return_reply(t) ==
    /\ inflight[t].pc = "return"
    /\ LET f == inflight[t]
       IN IF f.route = "GET /api/swimmers"
          THEN /\ request' = [op |-> f.route, args |-> EmptyDict]
               /\ response' = IF f.buf = EmptiedDump
                              THEN [status |-> 200, text |-> "\n]\n"]
                              ELSE Reply(200, f.buf.data)
          ELSE IF f.route = "POST /api/swimmers"
          THEN /\ request' = [op |-> f.route, is_json |-> TRUE, json |-> f.json]
               /\ response' = Reply(201, f.body)
          ELSE IF f.route = "POST /api/races"
          THEN /\ request' = [op |-> f.route, is_json |-> TRUE, json |-> f.json]
               /\ response' = Reply(201, f.record)
          ELSE IF f.route = "GET /api/races"
          THEN /\ request' = [op |-> f.route, event |-> "",
                               meet_id |-> <<>>, swimmer_id |-> <<>>]
               /\ response' = Reply(200, f.body)
          ELSE IF f.route = "GET /api/swimmers/<id>/pbs"
          THEN /\ request' = [op |-> f.route, swimmer_id |-> f.swimmer_id]
               /\ response' = Reply(200, f.body)
          ELSE IF f.route = "GET /api/rankings"
          THEN /\ request' = [op |-> f.route, event |-> f.event,
                               gender |-> f.gender, ageGroup |-> f.ageGroup]
               /\ response' = Reply(200, f.body)
          ELSE IF f.route = "PUT /api/swimmers/<id>"
          THEN /\ request' = [op |-> f.route, swimmer_id |-> f.swimmer_id, json |-> f.json]
               /\ response' = Reply(200, f.body)
          ELSE IF f.route = "GET /api/swimmers/<id>"
          THEN /\ request' = [op |-> f.route, swimmer_id |-> f.swimmer_id]
               /\ response' = Reply(200, f.body)
          ELSE /\ request' = [op |-> f.route, swimmer_id |-> f.swimmer_id]
               /\ response' = Reply(200, [message |-> "Swimmer deleted"])
    /\ inflight' = Left(t)
    /\ UNCHANGED <<swimmers, events, races, swimmers_file, races_file>>

(***************************************************************************)
(* Initial state: app.py:30-32 with empty swimmers.json and                *)
(* race_results.json and a two-event events.json.                          *)
(***************************************************************************)
Init ==
    /\ swimmers = <<>>
    /\ events = << [id |-> 1, name |-> "50m Freestyle", code |-> "50free",
                    distance |-> 50, stroke |-> "freestyle", pool |-> "SCM"],
                   [id |-> 2, name |-> "100m Freestyle", code |-> "100free",
                    distance |-> 100, stroke |-> "freestyle", pool |-> "SCM"] >>
    /\ races = <<>>
    /\ swimmers_file = TextOf(<<>>)
    /\ races_file = TextOf(<<>>)
    /\ request = [op |-> "none"]
    /\ response = Reply(0, EmptyDict)
    /\ inflight = [t \in Threads |-> Idle]

(***************************************************************************)
(* Request inputs.                                                         *)
(***************************************************************************)
NotJson == [is_json |-> FALSE, json |-> EmptyDict]
Json(obj) == [is_json |-> TRUE, json |-> obj]

NYC == <<"N", "Y", "C">>
nyc == <<"n", "y", "c">>
QAS == <<"Q", "A", "S">>

Ids == 1..MaxId

\* race times: plain seconds, minutes:seconds, one value in both forms
T3050 == <<"3", "0", ".", "5", "0">>
T2980 == <<"2", "9", ".", "8", "0">>
T3010 == <<"3", "0", ".", "1", "0">>
T2950 == <<"2", "9", ".", "5", "0">>
T02980 == <<"0", ":", "2", "9", ".", "8", "0">>
\* one decimal value written twice: float("68.04") is the double nearest to
\* 68.04, and 1 * 60 + float("08.04") is rounded to the double below it
T6804 == <<"6", "8", ".", "0", "4">>
T10804 == <<"1", ":", "0", "8", ".", "0", "4">>
T010804 == <<"0", "1", ":", "0", "8", ".", "0", "4">>
\* strings time_to_seconds rejects
TwoColons == <<"1", ":", "0", "1", ":", "5">>
NoNumber == <<"x">>
BadMinutes == <<"x", ":", "3", "0", ".", "5">>
BadSeconds == <<"1", ":", "x">>

Dates == {"2026-01-10"}

(***************************************************************************)
(* Spec: every route, small inputs.                                        *)
(***************************************************************************)
SwimmerBodies ==
    {Json([name |-> "Ann", age |-> 17, gender |-> "F", team |-> NYC]),
     Json([name |-> "Bob", age |-> 25, gender |-> "M", team |-> QAS]),
     Json([name |-> "Bob", age |-> 25, gender |-> "M"]),
     NotJson}

PutBodies == {EmptyDict, [age |-> 25], [id |-> 1]}

RaceBodies ==
    {Json([swimmer_id |-> 1, event |-> "50free", time |-> T3050, meet_id |-> 2]),
     Json([swimmer_id |-> 2, event |-> "50free", time |-> T2980, meet_id |-> 2,
           meet_name |-> "Winter Open", date |-> "2025-12-01"]),
     Json([swimmer_id |-> 1, event |-> "50free"]),
     Json([swimmer_id |-> 1, event |-> "50free", time |-> T3050]),
     Json([swimmer_id |-> 1, event |-> "50free", time |-> TwoColons, meet_id |-> 2]),
     Json([swimmer_id |-> 1, event |-> "50free", time |-> NoNumber, meet_id |-> 2]),
     NotJson}

\* the swimmer ids a step leaves behind stay within the bound
IdsBounded == \A i \in 1..Len(swimmers') : swimmers'[i].id <= MaxId

Next ==
    \/ \E args \in {EmptyDict, [team |-> nyc]} : handle_swimmers_GET(args)
    \/ \E req \in SwimmerBodies : 
           Len(swimmers) < MaxSwimmers /\ handle_swimmers_POST(req) /\ IdsBounded
    \/ \E id \in Ids : handle_swimmer_GET(id)
    \/ \E id \in Ids, json \in PutBodies : 
           handle_swimmer_PUT(id, json) /\ IdsBounded
    \/ \E id \in Ids : handle_swimmer_DELETE(id)
    \/ \E ev \in {"", "50free"}, s \in {<<>>, <<"1">>, <<"x">>} :
           handle_races_GET(ev, <<>>, s)
    \/ \E req \in RaceBodies, today \in Dates :
           Len(races) < MaxRaces /\ handle_races_POST(req, today)
    \/ \E ev \in {"", "50free"}, g \in {"", "F"} : get_rankings(ev, g, "")
    \/ \E id \in Ids : get_personal_bests(id)
    \/ get_events
    \/ health_check

Spec == Init /\ [][Next]_vars

\* a registration answered 201 is the last request
Registered ==
    request.op = "POST /api/swimmers" /\ response.status = 201

\* a race submission answered 201 is the last request
RaceStored ==
    request.op = "POST /api/races" /\ response.status = 201

\* C2 (as claimed): no two swimmer records of the registry have the same id
C2_UniqueIds ==
    \A i, j \in 1..Len(swimmers) : i # j => swimmers[i].id # swimmers[j].id

\* C3 (as claimed): the race submitted right after a registration, for the
\* id the registration returned, is returned with isPB = TRUE
C3_FirstRaceIsPB ==
    [][(/\ Registered
        /\ RaceStored'
        /\ response'.body.swimmer_id = response.body.id)
       => response'.body.isPB]_vars

\* the ledger holds a race of this swimmer id in this event
HasHistory(swimmer_id, event) ==
    \E j \in 1..Len(races) :
        races[j].swimmer_id = swimmer_id /\ races[j].event = event

\* C3 (amended): a race submitted for a registered swimmer id is returned
\* with isPB = TRUE whenever the ledger held no race of that id and event at
\* the moment of submission; in particular the race that follows the
\* registration is a PB when no race was stored under the new id before.
C3_FirstRaceIsPBWithoutHistory ==
    [][(/\ RaceStored'
        /\ find_swimmer(response'.body.swimmer_id) # 0
        /\ ~HasHistory(response'.body.swimmer_id, response'.body.event))
       => response'.body.isPB]_vars

\* C3 witness: the only race of a registered swimmer's id and event was
\* stored as a PB
C3_Witness ==
    /\ RaceStored
    /\ find_swimmer(response.body.swimmer_id) # 0
    /\ Cardinality({j \in 1..Len(races) :
                       /\ races[j].swimmer_id = response.body.swimmer_id
                       /\ races[j].event = response.body.event}) = 1
    /\ response.body.isPB

\* the last request is a JSON submission that lacks one of the fields
LacksField(op, fields) ==
    /\ request.op = op
    /\ request.is_json
    /\ \E f \in fields : ~Has(request.json, f)

\* C7: a race submission lacking swimmer_id, event, time or meet_id, and a
\* registration lacking name, age, gender or team, is answered 400 with an
\* error message and leaves registry, ledger and both files as they were.
C7_MissingFieldRejected ==
    [][(\/ LacksField("POST /api/races", {"swimmer_id", "event", "time", "meet_id"})'
        \/ LacksField("POST /api/swimmers", {"name", "age", "gender", "team"})')
       => /\ response'.status = 400
          /\ Has(response'.body, "error")
          /\ UNCHANGED <<swimmers, races, swimmers_file, races_file>>]_vars

\* C7 witness: a race without meet_id was refused while the ledger and the
\* registry held records
C7_Witness ==
    /\ LacksField("POST /api/races", {"meet_id"})
    /\ response.status = 400
    /\ Len(races) > 0 /\ Len(swimmers) > 0

(***************************************************************************)
(* SpecRegistry: the swimmer routes with larger update bodies, and one     *)
(* race submission so that the ledger is not empty.                        *)
(***************************************************************************)
RegistryPutBodies ==
    {EmptyDict, [age |-> 25], [id |-> 1],
     [name |-> "Cy", team |-> nyc, email |-> "cy@x.io"]}

NextRegistry ==
    \/ \E req \in SwimmerBodies :
           Len(swimmers) < MaxSwimmers /\ handle_swimmers_POST(req) /\ IdsBounded
    \/ \E id \in Ids : handle_swimmer_GET(id)
    \/ \E id \in Ids, json \in RegistryPutBodies :
           handle_swimmer_PUT(id, json) /\ IdsBounded
    \/ \E id \in Ids : handle_swimmer_DELETE(id)
    \/ \E today \in Dates :
           /\ Len(races) < 1
           /\ handle_races_POST(Json([swimmer_id |-> 1, event |-> "50free",
                                      time |-> T3050, meet_id |-> 2]), today)

SpecRegistry == Init /\ [][NextRegistry]_vars

(***************************************************************************)
(* SpecSubmit: the routes that write, without PUT: registrations,          *)
(* deletions and race submissions, well-formed and not.                    *)
(***************************************************************************)
NextSubmit ==
    \/ \E req \in SwimmerBodies :
           Len(swimmers) < MaxSwimmers /\ handle_swimmers_POST(req) /\ IdsBounded
    \/ \E id \in Ids : handle_swimmer_DELETE(id)
    \/ \E req \in RaceBodies, today \in Dates :
           Len(races) < MaxRaces /\ handle_races_POST(req, today)

SpecSubmit == Init /\ [][NextSubmit]_vars

\* the ids of the registry
IdsIn(registry) == {registry[i].id : i \in 1..Len(registry)}

\* C9: a registration is given the id 1 in an empty registry and otherwise
\* one more than the largest id present, and the GET of that id that follows
\* it returns the record with this id, the submitted name and team, and a
\* non-empty ageGroup.
C9_CreateThenGet ==
    [][/\ Registered' =>
            /\ IdsIn(swimmers) = {} => response'.body.id = 1
            /\ IdsIn(swimmers) # {} =>
                   /\ response'.body.id - 1 \in IdsIn(swimmers)
                   /\ \A i \in IdsIn(swimmers) : i < response'.body.id
       /\ (/\ Registered
           /\ request'.op = "GET /api/swimmers/<id>"
           /\ request'.swimmer_id = response.body.id) =>
            /\ response'.status = 200
            /\ response'.body.id = response.body.id
            /\ response'.body.name = request.json.name
            /\ response'.body.team = request.json.team
            /\ Has(response'.body, "ageGroup")
            /\ response'.body.ageGroup # ""]_vars

\* C9 witness: the swimmer registered after a deletion, next to a swimmer
\* of another name, was read back under its id
C9_Witness ==
    /\ request.op = "GET /api/swimmers/<id>"
    /\ response.status = 200
    /\ Len(swimmers) = 2
    /\ swimmers[1].id = 2
    /\ swimmers[2].id = 3
    /\ response.body = swimmers[2]
    /\ swimmers[1].name # swimmers[2].name

\* C10: a PUT on a known id changes the first record of that id and nothing
\* else: the record gets exactly the fields of the body, keeps every other
\* field (ageGroup too when only age is sent), no other record and no race
\* changes; a PUT on an unknown id is answered 404 and changes nothing.
C10_UpdateFrame ==
    [][request'.op = "PUT /api/swimmers/<id>" =>
          LET k == find_swimmer(request'.swimmer_id)
              body == request'.json
          IN /\ UNCHANGED <<races, races_file>>
             /\ k = 0 => response'.status = 404 /\ UNCHANGED <<swimmers, swimmers_file>>
             /\ k # 0 =>
                  /\ response'.status = 200
                  /\ Len(swimmers') = Len(swimmers)
                  /\ \A i \in 1..Len(swimmers) : i # k => swimmers'[i] = swimmers[i]
                  /\ DOMAIN swimmers'[k] = DOMAIN swimmers[k] \cup DOMAIN body
                  /\ \A f \in DOMAIN body : swimmers'[k][f] = body[f]
                  /\ \A f \in DOMAIN swimmers[k] \ DOMAIN body :
                         swimmers'[k][f] = swimmers[k][f]
                  /\ response'.body = swimmers'[k]]_vars

\* C10 witness: after a PUT of age alone the record's age is 25 and its
\* ageGroup still Youth, with a race in the ledger
C10_Witness ==
    /\ request.op = "PUT /api/swimmers/<id>"
    /\ DOMAIN request.json = {"age"}
    /\ response.status = 200
    /\ response.body.age = 25
    /\ response.body.ageGroup = "Youth"
    /\ Len(races) > 0

\* C10 witness: a PUT on an id the registry does not hold was answered 404
C10_UnknownWitness ==
    /\ request.op = "PUT /api/swimmers/<id>"
    /\ response.status = 404
    /\ Len(swimmers) > 0

(***************************************************************************)
(* SpecAppend: the ledger under race submissions alone, with times in      *)
(* both formats, equal times, one decimal value whose two spellings parse  *)
(* to different doubles, two swimmers and two events.                      *)
(***************************************************************************)
AppendPairs == {<<1, "50free">>, <<2, "50free">>, <<1, "100free">>}

AppendTimes == {T3050, T2980, T3010, T2950, T02980}

\* every time for the first swimmer and event, the slowest and the fastest
\* for the other swimmer, and the two spellings of 68.04 for the other event
AppendBodies ==
    {Json([swimmer_id |-> 1, event |-> "50free", time |-> t, meet_id |-> 2]) :
         t \in AppendTimes}
    \cup {Json([swimmer_id |-> 2, event |-> "50free", time |-> t, meet_id |-> 2]) :
             t \in {T3050, T2950}}
    \cup {Json([swimmer_id |-> 1, event |-> "100free", time |-> t, meet_id |-> 2]) :
             t \in {T6804, T10804}}

NextAppend ==
    \E req \in AppendBodies, today \in Dates :
        Len(races) < MaxAppends /\ handle_races_POST(req, today)

SpecAppend == Init /\ [][NextAppend]_vars

\* the races before position i with the swimmer_id and event of race i
Earlier(i) ==
    {j \in 1..(i - 1) : /\ races[j].swimmer_id = races[i].swimmer_id
                        /\ races[j].event = races[i].event}

Seconds(i) == time_to_seconds(races[i].time)

\* the times of the races of one swimmer and event, in ledger order
TimesOf(swimmer_id, event) ==
    LET rs == Filter(races, [i \in 1..Len(races) |->
                      races[i].swimmer_id = swimmer_id /\ races[i].event = event])
    IN [i \in 1..Len(rs) |-> rs[i].time]

FlagsOf(swimmer_id, event) ==
    LET rs == Filter(races, [i \in 1..Len(races) |->
                      races[i].swimmer_id = swimmer_id /\ races[i].event = event])
    IN [i \in 1..Len(rs) |-> rs[i].isPB]

\* C1: every appended race carries isPB = TRUE exactly when no earlier race
\* has its swimmer_id and event, or its time is strictly less than the least
\* time among those earlier races (an equal time is not a PB); the race
\* returned by a successful POST is the one stored last; and the times
\* 30.50, 29.80, 30.10, 29.50 of one swimmer and event give TRUE, TRUE,
\* FALSE, TRUE.
C1_IsPBIffStrictlyFaster ==
    /\ \A i \in 1..Len(races) :
           races[i].isPB =
               \/ Earlier(i) = {}
               \/ \E m \in Earlier(i) :
                      /\ \A j \in Earlier(i) : ~Lt(Seconds(j), Seconds(m))
                      /\ Lt(Seconds(i), Seconds(m))
    /\ (request.op = "POST /api/races" /\ response.status = 201)
           => (Len(races) > 0 /\ response.body = races[Len(races)])
    /\ \A p \in AppendPairs :
           TimesOf(p[1], p[2]) = <<T3050, T2980, T3010, T2950>>
               => FlagsOf(p[1], p[2]) = <<TRUE, TRUE, FALSE, TRUE>>

\* C1 witness: the four-race progression is in the ledger, and somewhere a
\* race that ties the best time in the other format was stored as no PB
C1_Witness ==
    /\ TimesOf(1, "50free") = <<T3050, T2980, T3010, T2950>>
    /\ response.status = 201

C1_TieWitness ==
    \E i \in 1..Len(races) : \E j \in Earlier(i) :
        /\ races[i].time = T02980 /\ races[j].time = T2980
        /\ ~races[i].isPB

\* C1 witness: 1:08.04 after 68.04 was stored as a PB, its parsed time being
\* the smaller double, and a 68.04 after that as no PB
C1_RoundingWitness ==
    \E i, j, k \in 1..Len(races) :
        /\ Earlier(k) = {i, j} /\ i < j
        /\ races[i].time = T6804 /\ races[j].time = T10804 /\ races[k].time = T6804
        /\ races[j].isPB /\ ~races[k].isPB

(***************************************************************************)
(* SpecRank: registrations and race submissions followed by the two        *)
(* derivations; races of swimmers not (yet) registered, equal best times   *)
(* written differently, one decimal value whose two spellings parse to     *)
(* different doubles, races with and without meet_name and date.           *)
(***************************************************************************)
\* the registrations arrive in one order: Ann, Bob, Ann, ...
RankSwimmerAt(k) ==
    IF k % 2 = 1
    THEN Json([name |-> "Ann", age |-> 17, gender |-> "F", team |-> NYC])
    ELSE Json([name |-> "Bob", age |-> 25, gender |-> "M", team |-> QAS])

RankRaceBodies ==
    UNION {{Json([swimmer_id |-> s, event |-> "50free", time |-> T3050, meet_id |-> 2]),
            Json([swimmer_id |-> s, event |-> "50free", time |-> T2980, meet_id |-> 2,
                  meet_name |-> "Winter Open", date |-> "2025-12-01"]),
            Json([swimmer_id |-> s, event |-> "50free", time |-> T02980, meet_id |-> 3])} :
           s \in {1, 2}}
    \cup {Json([swimmer_id |-> s, event |-> "50free", time |-> T2980, meet_id |-> 2]) :
           s \in 3..MaxRankSwimmers}
    \cup {Json([swimmer_id |-> 1, event |-> "100free", time |-> T6804, meet_id |-> 2]),
          Json([swimmer_id |-> 1, event |-> "100free", time |-> T10804, meet_id |-> 3]),
          Json([swimmer_id |-> 2, event |-> "100free", time |-> T6804, meet_id |-> 2])}

RankQueries ==
    {<<"", "", "">>, <<"50free", "", "">>, <<"50free", "F", "">>,
     <<"50free", "", "25-29">>, <<"100free", "", "">>}

NextRank ==
    \/ /\ Len(swimmers) < MaxRankSwimmers
       /\ handle_swimmers_POST(RankSwimmerAt(Len(swimmers) + 1))
    \/ \E req \in RankRaceBodies, today \in Dates :
           Len(races) < MaxRaces /\ handle_races_POST(req, today)
    \/ \E q \in RankQueries : get_rankings(q[1], q[2], q[3])
    \/ \E id \in 1..MaxRankSwimmers : get_personal_bests(id)

SpecRank == Init /\ [][NextRank]_vars

\* a leaderboard is the last response
Ranked ==
    request.op = "GET /api/rankings" /\ request.event # ""

\* C4: the array rankings returns for a non-empty event has its parsed
\* times in non-decreasing order and its rank fields equal to 1..N in order.
C4_RankingSortedAndNumbered ==
    Ranked =>
        /\ response.status = 200
        /\ \A i \in 1..(Len(response.body) - 1) :
               ~Lt(time_to_seconds(response.body[i + 1].time),
                   time_to_seconds(response.body[i].time))
        /\ \A i \in 1..Len(response.body) : response.body[i].rank = i

\* C4 witness: a leaderboard of three swimmers whose best_times order
\* (first race of each in the ledger) is not the order of their times
C4_Witness ==
    /\ Ranked
    /\ Len(response.body) = 3
    /\ response.body[1].swimmer_id = 3
    /\ response.body[3].swimmer_id = 1
    /\ Lt(time_to_seconds(response.body[1].time), time_to_seconds(response.body[2].time))

\* C4 witness: 68.04 was swum before 1:08.04 by another swimmer, and the
\* leaderboard lists 1:08.04 first: its parsed time is the smaller double
C4_RoundingWitness ==
    /\ Ranked
    /\ Len(response.body) = 2
    /\ response.body[1].time = T10804 /\ response.body[1].swimmer_id = 1
    /\ response.body[2].time = T6804 /\ response.body[2].swimmer_id = 2
    /\ races[1].swimmer_id = 2

\* the first race in ledger order that attains the least parsed time among
\* the races with the given positions (a non-empty set)
FirstBest(positions) ==
    CHOOSE m \in positions :
        /\ \A j \in positions : ~Lt(Seconds(j), Seconds(m))
        /\ \A j \in positions : j < m => Lt(Seconds(m), Seconds(j))

RacesOf(swimmer_id, event) ==
    {j \in 1..Len(races) : races[j].swimmer_id = swimmer_id /\ races[j].event = event}

\* C5: in a leaderboard every swimmer_id occurs once, and an entry's time,
\* meet and date are those of the swimmer's first race in ledger order that
\* attains the swimmer's least parsed time in the event.
C5_RankingCarriesFirstBest ==
    Ranked =>
        /\ \A i, j \in 1..Len(response.body) :
               i # j => response.body[i].swimmer_id # response.body[j].swimmer_id
        /\ \A i \in 1..Len(response.body) :
               LET e == response.body[i]
                   mine == RacesOf(e.swimmer_id, request.event)
               IN /\ mine # {}
                  /\ e.time = races[FirstBest(mine)].time
                  /\ e.meet = Get(races[FirstBest(mine)], "meet_name", "Unknown")
                  /\ e.date = races[FirstBest(mine)].date

\* C5 witness: a swimmer's best time was swum twice, first as 0:29.80 and
\* later as 29.80, after a slower race, and the leaderboard shows 0:29.80
C5_Witness ==
    /\ Ranked
    /\ \E i \in 1..Len(response.body) :
           LET mine == RacesOf(response.body[i].swimmer_id, request.event)
           IN /\ Cardinality(mine) = 3
              /\ \E a, b, c \in mine :
                     /\ a < b /\ b < c
                     /\ races[a].time = T3050
                     /\ races[b].time = T02980
                     /\ races[c].time = T2980
              /\ response.body[i].time = T02980
              /\ response.body[i].meet = "Unknown"

\* C5 witness: a swimmer swam 68.04 and then 1:08.04, and the leaderboard
\* shows 1:08.04: it parses to a smaller double and replaced the entry
C5_RoundingWitness ==
    /\ Ranked
    /\ request.event = "100free"
    /\ Len(response.body) = 1
    /\ response.body[1].time = T10804
    /\ \E a, b \in RacesOf(1, "100free") :
           a < b /\ races[a].time = T6804 /\ races[b].time = T10804

\* a personal-bests mapping is the last response
PBsRead == request.op = "GET /api/swimmers/<id>/pbs"

\* C6: personalBests has one key per event in which the swimmer id has a
\* race (none when it has no race), and each entry's time, meet and date are
\* those of the first race in ledger order attaining the least parsed time
\* of that swimmer and event, meet being "Unknown" when the race has none.
C6_PersonalBests ==
    PBsRead =>
        /\ response.status = 200
        /\ DOMAIN response.body =
               {races[j].event : j \in {k \in 1..Len(races) :
                                           races[k].swimmer_id = request.swimmer_id}}
        /\ \A ev \in DOMAIN response.body :
               LET m == FirstBest(RacesOf(request.swimmer_id, ev))
               IN /\ response.body[ev].time = races[m].time
                  /\ response.body[ev].meet = Get(races[m], "meet_name", "Unknown")
                  /\ response.body[ev].date = Get(races[m], "date", "Unknown")

\* C6 witness: two events, the best 50free time swum twice
C6_Witness ==
    /\ PBsRead
    /\ DOMAIN response.body = {"50free", "100free"}
    /\ \E a, b \in RacesOf(request.swimmer_id, "50free") :
           /\ a < b
           /\ races[a].time = T2980
           /\ races[b].time = T02980
    /\ response.body["50free"].time = T2980
    /\ response.body["50free"].meet = "Winter Open"

\* C6 witness: the personal best of a swimmer who swam 68.04 and then
\* 1:08.04 is 1:08.04
C6_RoundingWitness ==
    /\ PBsRead
    /\ Has(response.body, "100free")
    /\ response.body["100free"].time = T10804
    /\ \E a, b \in RacesOf(request.swimmer_id, "100free") :
           a < b /\ races[a].time = T6804 /\ races[b].time = T10804

\* C6 witness: a swimmer id without races got the empty mapping
C6_EmptyWitness ==
    /\ PBsRead
    /\ Len(races) > 0
    /\ response.body = EmptyDict

(***************************************************************************)
(* SpecAge: registrations over a range of ages, each read back and         *)
(* deleted.                                                                *)
(***************************************************************************)
AgeRange == (0 - 2)..MaxAge

NextAge ==
    \/ \E a \in AgeRange, g \in {"M", "F"} :
           /\ Len(swimmers) < MaxAgeSwimmers
           /\ handle_swimmers_POST(Json([name |-> "Ann", age |-> a,
                                         gender |-> g, team |-> NYC]))
    \/ \E id \in 1..MaxAgeSwimmers : handle_swimmer_GET(id)
    \/ \E id \in 1..MaxAgeSwimmers : handle_swimmer_DELETE(id)

SpecAge == Init /\ [][NextAge]_vars

\* the buckets as the specification tabulates them: inclusive bounds, the
\* first open below and the last open above
BucketTable ==
    << [name |-> "18-24", lo |-> 18, hi |-> 24],
       [name |-> "25-29", lo |-> 25, hi |-> 29],
       [name |-> "30-34", lo |-> 30, hi |-> 34],
       [name |-> "35-39", lo |-> 35, hi |-> 39],
       [name |-> "40-44", lo |-> 40, hi |-> 44],
       [name |-> "45-49", lo |-> 45, hi |-> 49],
       [name |-> "50-54", lo |-> 50, hi |-> 54],
       [name |-> "55-59", lo |-> 55, hi |-> 59],
       [name |-> "60-64", lo |-> 60, hi |-> 64],
       [name |-> "65-69", lo |-> 65, hi |-> 69] >>

BucketsOf(age) ==
    {BucketTable[i].name : i \in {k \in 1..Len(BucketTable) :
                                     BucketTable[k].lo <= age /\ age <= BucketTable[k].hi}}
    \cup (IF age < 18 THEN {"Youth"} ELSE {})
    \cup (IF age >= 70 THEN {"70+"} ELSE {})

\* C8: the ageGroup a registration stores and returns is the one bucket of
\* the table that holds the submitted age (Youth below 18, 70+ from 70), so
\* every age gets exactly one bucket; 17, 18, 24, 25, 69, 70 give Youth,
\* 18-24, 18-24, 25-29, 65-69, 70+.
C8_AgeGroupBuckets ==
    Registered =>
        /\ BucketsOf(request.json.age) = {response.body.ageGroup}
        /\ swimmers[Len(swimmers)].ageGroup = response.body.ageGroup
        /\ \A c \in {<<17, "Youth">>, <<18, "18-24">>, <<24, "18-24">>,
                     <<25, "25-29">>, <<69, "65-69">>, <<70, "70+">>} :
               request.json.age = c[1] => response.body.ageGroup = c[2]

\* C8 witness: age 24 was registered and stored in 18-24
C8_Witness ==
    /\ Registered
    /\ request.json.age = 24
    /\ swimmers[Len(swimmers)].ageGroup = "18-24"

(***************************************************************************)
(* SpecFrame: every route, with few request bodies: what each operation    *)
(* writes and what it leaves alone.                                        *)
(***************************************************************************)
FrameSwimmerBodies ==
    {Json([name |-> "Ann", age |-> 17, gender |-> "F", team |-> NYC]),
     Json([name |-> "Bob", age |-> 25, gender |-> "M"]),
     NotJson}

FramePutBodies == {[age |-> 25]}

FrameRaceBodies ==
    {Json([swimmer_id |-> 1, event |-> "50free", time |-> T3050, meet_id |-> 2]),
     Json([swimmer_id |-> 2, event |-> "50free", time |-> T2980, meet_id |-> 2,
           meet_name |-> "Winter Open", date |-> "2025-12-01"]),
     Json([swimmer_id |-> 1, event |-> "50free", time |-> T3050]),
     Json([swimmer_id |-> 1, event |-> "50free", time |-> TwoColons, meet_id |-> 2]),
     NotJson}

NextFrame ==
    \/ \E args \in {EmptyDict, [team |-> nyc]} : handle_swimmers_GET(args)
    \/ \E req \in FrameSwimmerBodies :
           Len(swimmers) < MaxSwimmers /\ handle_swimmers_POST(req) /\ IdsBounded
    \/ \E id \in Ids : handle_swimmer_GET(id)
    \/ \E id \in Ids, json \in FramePutBodies : handle_swimmer_PUT(id, json)
    \/ \E id \in Ids : handle_swimmer_DELETE(id)
    \/ \E ev \in {"", "50free"}, s \in {<<>>, <<"x">>} : handle_races_GET(ev, <<>>, s)
    \/ \E req \in FrameRaceBodies, today \in Dates :
           Len(races) < MaxRaces /\ handle_races_POST(req, today)
    \/ \E ev \in {"", "50free"} : get_rankings(ev, "", "")
    \/ \E id \in {1, 2} : get_personal_bests(id)
    \/ get_events
    \/ health_check

SpecFrame == Init /\ [][NextFrame]_vars

\* the operations that only read
ReadOps ==
    {"GET /api/swimmers", "GET /api/swimmers/<id>", "GET /api/races",
     "GET /api/rankings", "GET /api/swimmers/<id>/pbs", "GET /api/events",
     "GET /api/health"}

\* the operations that write when they succeed
WriteOps ==
    {"POST /api/swimmers", "PUT /api/swimmers/<id>", "DELETE /api/swimmers/<id>",
     "POST /api/races"}

\* both files hold what memory holds
SnapshotsMatch == swimmers_file = TextOf(swimmers) /\ races_file = TextOf(races)

\* C11: after every completed operation swimmers.json equals the registry
\* and race_results.json equals the ledger; an operation that only reads or
\* that is answered with an error changes neither collection nor file, and a
\* write answered 2xx leaves the untouched collection and its file alone.
C11_SnapshotsFollowMemory ==
    /\ []SnapshotsMatch
    /\ [][/\ (request'.op \in ReadOps \/ response'.status >= 400)
               => UNCHANGED <<swimmers, races, swimmers_file, races_file>>
          /\ request'.op \in WriteOps \ {"POST /api/races"}
               => UNCHANGED <<races, races_file>>
          /\ request'.op = "POST /api/races"
               => UNCHANGED <<swimmers, swimmers_file>>]_vars

\* C11 witness: a deletion succeeded beside a remaining swimmer and stored
\* races
C11_Witness ==
    /\ request.op = "DELETE /api/swimmers/<id>"
    /\ response.status = 200
    /\ Len(swimmers) > 0 /\ swimmers_file = TextOf(swimmers)
    /\ Len(races) > 0 /\ races_file = TextOf(races)

\* C11 witness: a submission was refused while both collections held records
C11_RefusedWitness ==
    /\ request.op \in WriteOps
    /\ response.status >= 400
    /\ Len(swimmers) > 0 /\ Len(races) > 0

(***************************************************************************)
(* SpecTeams: registrations under three spellings of two teams, deletions, *)
(* and the list with and without a team parameter.                         *)
(***************************************************************************)
ZZZ == <<"Z", "Z", "Z">>

TeamSwimmerBodies ==
    {Json([name |-> "Ann", age |-> 17, gender |-> "F", team |-> NYC]),
     Json([name |-> "Bob", age |-> 25, gender |-> "M", team |-> QAS]),
     Json([name |-> "Cy", age |-> 30, gender |-> "M", team |-> nyc])}

\* request.args: no team parameter, ?team= , and four team values
TeamArgs ==
    {EmptyDict} \cup {[team |-> t] : t \in {<<>>, NYC, nyc, QAS, ZZZ}}

NextTeams ==
    \/ \E req \in TeamSwimmerBodies :
           Len(swimmers) < MaxSwimmers /\ handle_swimmers_POST(req) /\ IdsBounded
    \/ \E id \in Ids : handle_swimmer_DELETE(id)
    \/ \E args \in TeamArgs : handle_swimmers_GET(args)

SpecTeams == Init /\ [][NextTeams]_vars

\* upper- and lower-case forms of the letters of the team names
LetterPairs ==
    {<<"N", "n">>, <<"Y", "y">>, <<"C", "c">>, <<"Q", "q">>, <<"A", "a">>,
     <<"S", "s">>, <<"Z", "z">>}

\* two strings are equal when case is ignored
SameIgnoringCase(a, b) ==
    /\ Len(a) = Len(b)
    /\ \A i \in 1..Len(a) :
           a[i] = b[i] \/ <<a[i], b[i]>> \in LetterPairs \/ <<b[i], a[i]>> \in LetterPairs

\* the registry positions whose team is the given one, case ignored
TeamMatches(team) ==
    {i \in 1..Len(swimmers) : SameIgnoringCase(swimmers[i].team, team)}

\* the list is made of the records at the given positions, in registry order
IsSelection(list, positions) ==
    /\ Len(list) = Cardinality(positions)
    /\ \A k \in 1..Len(list) :
           \E i \in positions :
               /\ Cardinality({j \in positions : j < i}) = k - 1
               /\ list[k] = swimmers[i]

\* the list of swimmers is the last response
Listed == request.op = "GET /api/swimmers"

\* C12 (as claimed): for every value of the team parameter, the empty one
\* too, the list is answered 200 with exactly the swimmers of that team
\* (case ignored) in registry order, hence with [] when no swimmer matches
C12_TeamFilterEveryValue ==
    (Listed /\ Has(request.args, "team")) =>
        /\ response.status = 200
        /\ IsSelection(response.body, TeamMatches(request.args.team))

\* C12 (amended): for every non-empty value of the team parameter the list
\* is answered 200 with exactly the swimmers of that team (case ignored) in
\* registry order, hence with [] when no swimmer matches; with an empty
\* value, as without the parameter, the whole registry is returned.
C12_TeamFilter ==
    Listed =>
        /\ response.status = 200
        /\ IF Has(request.args, "team") /\ request.args.team # <<>>
           THEN IsSelection(response.body, TeamMatches(request.args.team))
           ELSE response.body = swimmers

\* C12 witness: the filter nyc returned two swimmers stored as NYC and nyc
C12_Witness ==
    /\ Listed
    /\ Has(request.args, "team") /\ request.args.team = nyc
    /\ Len(response.body) = 2
    /\ response.body[1].team = NYC
    /\ response.body[2].team = nyc

\* C12 witness: a team no swimmer has gave [] from a registry of two
C12_NoMatchWitness ==
    /\ Listed
    /\ Has(request.args, "team") /\ request.args.team = ZZZ
    /\ Len(swimmers) = 2
    /\ response = Reply(200, <<>>)

\* C12 witness: of two swimmers, the filter dropped the first
C12_OrderWitness ==
    /\ Listed
    /\ Has(request.args, "team") /\ request.args.team = QAS
    /\ Len(swimmers) = 2
    /\ response.body = <<swimmers[2]>>

\* the registry record at position i passes the filters of the last request
PassesFilters(i) ==
    /\ request.gender # "" => swimmers[i].gender = request.gender
    /\ request.ageGroup # "" =>
           (Has(swimmers[i], "ageGroup") /\ swimmers[i].ageGroup = request.ageGroup)

\* C13 (as claimed): in a leaderboard every entry's swimmer_id is the id of
\* a registered swimmer who passes the gender and ageGroup filters supplied
\* (compared with the fields stored at query time), and every registered
\* swimmer whose id has a race in the event and who passes the filters has
\* an entry under that id.
C13_RankingFilters ==
    Ranked =>
        /\ \A k \in 1..Len(response.body) :
               \E i \in 1..Len(swimmers) :
                   /\ swimmers[i].id = response.body[k].swimmer_id
                   /\ PassesFilters(i)
        /\ \A i \in 1..Len(swimmers) :
               (RacesOf(swimmers[i].id, request.event) # {} /\ PassesFilters(i))
                   => \E k \in 1..Len(response.body) :
                          response.body[k].swimmer_id = swimmers[i].id

\* C14: a read (swimmer get and list, race list, rankings, personalBests,
\* events, health) changes neither the registry, the ledger nor a file; a
\* personalBests call that follows one for the same id returns the same
\* response; and the mapping a personalBests call returned is the mapping of
\* the state it leaves, so a call after any number of reads returns it again.
C14_ReadsChangeNothing ==
    /\ [](PBsRead => response = Reply(200, personal_bests(request.swimmer_id)))
    /\ [][/\ request'.op \in ReadOps
               => UNCHANGED <<swimmers, events, races, swimmers_file, races_file>>
          /\ (PBsRead /\ PBsRead' /\ request'.swimmer_id = request.swimmer_id)
               => response' = response]_vars

\* C14 witness: personalBests returned a mapping with an entry for a
\* swimmer with two races, of which the second was stored as no PB
C14_Witness ==
    /\ PBsRead
    /\ Has(response.body, "50free")
    /\ \E i, j \in RacesOf(request.swimmer_id, "50free") :
           i < j /\ races[i].isPB /\ ~races[j].isPB

\* C15: every step leaves the ledger as it was or appends one race to it:
\* the races stored before keep their position and every field, isPB
\* included, whatever is appended later and whichever swimmer is deleted.
C15_LedgerAppendOnly ==
    [][\/ races' = races
       \/ /\ Len(races') = Len(races) + 1
          /\ SubSeq(races', 1, Len(races)) = races
          /\ request'.op = "POST /api/races"]_vars

\* C15 witness: a swimmer was deleted and the ledger still holds its races,
\* the first of them a PB although a later race of the same swimmer and
\* event has the same time
C15_Witness ==
    /\ request.op = "DELETE /api/swimmers/<id>"
    /\ response.status = 200
    /\ find_swimmer(request.swimmer_id) = 0
    /\ \E i, j \in RacesOf(request.swimmer_id, "50free") :
           i < j /\ races[i].isPB /\ races[i].time = races[j].time

\* the registry holds a swimmer of this id
InRegistry(id) == \E i \in 1..Len(swimmers) : swimmers[i].id = id

\* C16: a race submission with the four required fields and a time that
\* parses is stored and answered 201 whether or not its swimmer_id is the id
\* of a registered swimmer; and every entry of a leaderboard has the id of a
\* swimmer in the registry at the time of the query.
C16_UnknownSwimmerStoredNotRanked ==
    /\ [](Ranked => /\ response.status = 200
                    /\ \A k \in 1..Len(response.body) :
                           InRegistry(response.body[k].swimmer_id))
    /\ [][(/\ request'.op = "POST /api/races"
            /\ request'.is_json
            /\ \A f \in {"swimmer_id", "event", "time", "meet_id"} : Has(request'.json, f)
            /\ time_to_seconds(request'.json.time).ok)
           => /\ response'.status = 201
              /\ response'.body.swimmer_id = request'.json.swimmer_id
              /\ races' = Append(races, response'.body)]_vars

\* C16 witness: a leaderboard with an entry, while the ledger holds a race
\* of the event stored under an id that no swimmer has
C16_Witness ==
    /\ Ranked
    /\ Len(response.body) > 0
    /\ \E j \in 1..Len(races) :
           /\ races[j].event = request.event
           /\ ~InRegistry(races[j].swimmer_id)

\* C16 witness: a race was stored under an id that no swimmer has
C16_StoredWitness ==
    /\ RaceStored
    /\ ~InRegistry(response.body.swimmer_id)
    /\ Len(swimmers) > 0

(***************************************************************************)
(* SpecThreads: the handlers on two threads, every interleaving of their   *)
(* steps, one request after the other included: registrations, race        *)
(* submissions, reads, updates and deletions of swimmer 1, leaderboards    *)
(* and the other reads.                                                    *)
(***************************************************************************)
\* the body each thread's client registers, and the race it submits
ThreadSwimmerBody ==
    << Json([name |-> "Ann", age |-> 17, gender |-> "F", team |-> NYC]),
       Json([name |-> "Bob", age |-> 25, gender |-> "M", team |-> QAS]) >>

ThreadRaceBody ==
    << Json([swimmer_id |-> 1, event |-> "50free", time |-> T3050, meet_id |-> 2]),
       Json([swimmer_id |-> 1, event |-> "50free", time |-> T2980, meet_id |-> 2]) >>

\* thread t takes another request
Accepts(t) == inflight[t].served < MaxRequests

NextThreads ==
    \/ \E t \in Threads :
           /\ Accepts(t) /\ Len(swimmers) < MaxSwimmers
           /\ swimmers_POST_test(t, ThreadSwimmerBody[t])
    \/ \E t \in Threads : swimmers_POST_ids(t)
    \/ \E t \in Threads : swimmers_POST_append(t)
    \/ \E t \in Threads :
           /\ Accepts(t) /\ Len(races) < MaxThreadRaces
           /\ races_POST_allocate(t, ThreadRaceBody[t])
    \/ \E t \in Threads, today \in Dates : races_POST_classify(t, today)
    \/ \E t \in Threads : races_POST_append(t)
    \/ \E t \in Threads, id \in {1},
             method \in {"GET /api/swimmers/<id>", "PUT /api/swimmers/<id>",
                         "DELETE /api/swimmers/<id>"} :
           Accepts(t) /\ handle_swimmer_enter(t, method, id, [name |-> "Cy"])
    \/ \E t \in Threads : handle_swimmer_find(t)
    \/ \E t \in Threads : handle_swimmer_method(t)
    \/ \E t \in Threads : save_data_open(t)
    \/ \E t \in Threads : save_data_dump(t)
    \/ \E t \in Threads : iterencode_list(t)
    \/ \E t \in Threads : save_data_close(t)
    \/ \E t \in Threads : jsonify_swimmer(t)
    \/ \E t \in Threads : return_reply(t)
    \/ \E t \in Threads : Accepts(t) /\ get_rankings_races(t, "50free", "", "")
    \/ \E t \in Threads : get_rankings_join(t)
    \/ \E t \in Threads : get_rankings_entry(t)
    \/ \E t \in Threads : Accepts(t) /\ swimmers_GET_enter(t)
    \/ \E t \in Threads : Accepts(t) /\ races_GET_enter(t)
    \/ \E t \in Threads, id \in {1} :
           Accepts(t) /\ get_personal_bests_enter(t, id)

SpecThreads == Init /\ [][NextThreads]_vars

\* the list the request of thread t adds to
CollectionOf(t) ==
    IF inflight[t].route = "POST /api/swimmers" THEN swimmers ELSE races

\* thread t appends its record in this step
Appends(t) ==
    /\ inflight[t].pc # "idle" /\ inflight[t].pc = "append"
    /\ inflight'[t].pc = "open"

\* two records of the list have the same id
SharedId(coll) == \E i, j \in 1..Len(coll) : i # j /\ coll[i].id = coll[j].id

\* C17: when a create appends its record and no other request was in
\* flight since it entered its handler (it runs to completion before the
\* next starts), the id of the record is greater than every id in the
\* collection, so such a create never makes two records share an id.
\* (That interleaved creates do is the witness.)
C17_SerialCreatesAllocateFresh ==
    [][\A t \in Threads :
          (Appends(t) /\ ~inflight[t].overlapped)
             => /\ \A i \in 1..Len(CollectionOf(t)) :
                       CollectionOf(t)[i].id < inflight[t].record.id
                /\ SharedId(CollectionOf(t)') => SharedId(CollectionOf(t))]_vars

\* C17 witness: both threads are done, both registrations were answered
\* 201, and the two swimmers share an id
C17_Witness ==
    /\ \A t \in Threads : inflight[t].pc = "idle"
    /\ Len(swimmers) = 2
    /\ SharedId(swimmers)
    /\ swimmers[1].name # swimmers[2].name

\* C17 witness: both threads are done and two races share an id
C17_RacesWitness ==
    /\ \A t \in Threads : inflight[t].pc = "idle"
    /\ SharedId(races)

\* C17 witness: two creates ran one after the other and the ids differ
C17_SerialWitness ==
    /\ \E t \in Threads :
           /\ inflight[t].pc # "idle"
           /\ inflight[t].route = "POST /api/swimmers"
           /\ inflight[t].pc = "open"
           /\ ~inflight[t].overlapped
    /\ Len(swimmers) = 2 /\ ~SharedId(swimmers)

\* a registration met a deletion between "if swimmers" and max(): 500
ThreadsCrashWitness ==
    /\ request.op = "POST /api/swimmers"
    /\ response = Crash
    /\ swimmers = <<>>

\* the text of swimmers.json is no JSON text while no request is in flight,
\* and both registrations are in the list
ThreadsTornFileWitness ==
    /\ \A t \in Threads : inflight[t].pc = "idle"
    /\ Len(swimmers) = 2
    /\ swimmers_file.data = <<swimmers[1]>>
    /\ swimmers_file.size = TextLen(swimmers)
    /\ ~Loads(swimmers_file)

\* the text of race_results.json is no JSON text while no request is in flight
ThreadsTornLedgerWitness ==
    /\ \A t \in Threads : inflight[t].pc = "idle"
    /\ Len(races) = 2
    /\ ~Loads(races_file)

\* no request is in flight, swimmers.json is a JSON text and not the text
\* of the list: a record the dump had written was deleted under it, and
\* the record that moved up was never read
ThreadsStaleFileWitness ==
    /\ \A t \in Threads : inflight[t].pc = "idle"
    /\ Loads(swimmers_file)
    /\ Len(swimmers) = 1 /\ Len(swimmers_file.data) = 1
    /\ swimmers_file.data[1].id # swimmers[1].id

\* the list was emptied between the test and the loop of json.dump
ThreadsEmptiedDumpWitness ==
    /\ swimmers_file = EmptiedDump
    /\ swimmers = <<>>

\* the registry was emptied between the test and the loop of jsonify: the
\* reply to GET /api/swimmers is 200 with a text that is no JSON text
ThreadsEmptiedReplyWitness ==
    /\ request.op = "GET /api/swimmers"
    /\ response = [status |-> 200, text |-> "\n]\n"]
    /\ swimmers = <<>>

\* a leaderboard lists a swimmer who was deleted after line 206 found the
\* record, and the deletion was answered before the leaderboard
ThreadsDeletedRankedWitness ==
    /\ request.op = "GET /api/rankings"
    /\ response.status = 200 /\ Len(response.body) = 1
    /\ swimmers = <<>>
    /\ \E t \in Threads : inflight[t].pc = "idle" /\ inflight[t].served = 2
    /\ \A t \in Threads : inflight[t].pc = "idle"

\* the personal bests of swimmer 1 are answered after swimmer 1 was deleted
\* while the request was in flight
ThreadsBestsAfterDeleteWitness ==
    /\ request = [op |-> "GET /api/swimmers/<id>/pbs", swimmer_id |-> 1]
    /\ response.status = 200 /\ Has(response.body, "50free")
    /\ swimmers = <<>> /\ Len(swimmers_file.data) = 0
    /\ \A t \in Threads : inflight[t].pc = "idle" /\ inflight[t].served = 2

\* swimmers.json is empty while the list holds a record
ThreadsEmptyFileWitness ==
    /\ swimmers_file = Truncated
    /\ Len(swimmers) = 1

(***************************************************************************)
(* SpecFormat: race submissions with times in both formats and with the    *)
(* four kinds of malformed time, a registration, and the two derivations.  *)
(***************************************************************************)
MalformedTimes == {TwoColons, NoNumber, BadMinutes, BadSeconds}

FormatRaceBodies ==
    {Json([swimmer_id |-> 1, event |-> "50free", time |-> t, meet_id |-> 2]) :
         t \in {T3050, T02980} \cup MalformedTimes}

NextFormat ==
    \/ Len(swimmers) < MaxSwimmers
           /\ handle_swimmers_POST(Json([name |-> "Ann", age |-> 17,
                                         gender |-> "F", team |-> NYC]))
    \/ \E req \in FormatRaceBodies, today \in Dates :
           Len(races) < MaxRaces /\ handle_races_POST(req, today)
    \/ get_rankings("50free", "", "")
    \/ \E id \in {1, 2} : get_personal_bests(id)

SpecFormat == Init /\ [][NextFormat]_vars

\* the request is a race submission complete but for a time that
\* time_to_seconds rejects
Malformed(req) ==
    /\ req.op = "POST /api/races"
    /\ req.is_json
    /\ \A f \in {"swimmer_id", "event", "time", "meet_id"} : Has(req.json, f)
    /\ ~time_to_seconds(req.json.time).ok

\* every race of the ledger has a time that parses
LedgerParses == all_parse(races)

\* the two derivations answer 200
DerivationsServed == (Ranked \/ PBsRead) => response.status = 200

\* C18: a race submission whose time does not parse is answered with an
\* error and changes neither ledger, registry nor file; every race of the
\* ledger has a time that parses; and rankings (with an event) and
\* personalBests always answer 200.
C18_MalformedTimeNeverStored ==
    /\ []LedgerParses
    /\ []DerivationsServed
    /\ [][Malformed(request')
              => /\ response'.status >= 400
                 /\ UNCHANGED <<swimmers, races, swimmers_file, races_file>>]_vars

\* C18 witness: a time with two colons was refused while the ledger held
\* races in both formats
C18_Witness ==
    /\ Malformed(request)
    /\ request.json.time = TwoColons
    /\ response.status = 500
    /\ \E i, j \in 1..Len(races) : races[i].time = T3050 /\ races[j].time = T02980

\* C18 witness: a leaderboard was served after a malformed submission
C18_RankedWitness ==
    /\ Ranked
    /\ Len(response.body) = 1
    /\ Len(races) = MaxRaces

(***************************************************************************)
(* SpecProgress: race submissions into the empty ledger, for two swimmer   *)
(* ids and two events, one of them with the two spellings of 68.04, each   *)
(* followed by reads of the personal bests.                                *)
(***************************************************************************)
ProgressBodies ==
    {Json([swimmer_id |-> 1, event |-> "50free", time |-> t, meet_id |-> 2]) :
         t \in {T3050, T2980, T3010, T02980}}
    \cup {Json([swimmer_id |-> 2, event |-> "50free", time |-> T2950, meet_id |-> 2]),
          Json([swimmer_id |-> 1, event |-> "100free", time |-> T6804, meet_id |-> 2]),
          Json([swimmer_id |-> 1, event |-> "100free", time |-> T10804, meet_id |-> 2])}

NextProgress ==
    \/ \E req \in ProgressBodies, today \in Dates :
           Len(races) < MaxRaces /\ handle_races_POST(req, today)
    \/ \E id \in {1, 2} : get_personal_bests(id)

SpecProgress == Init /\ [][NextProgress]_vars

\* the positions of the races of a swimmer id and event stored as PBs
PBsStored(swimmer_id, event) ==
    {j \in RacesOf(swimmer_id, event) : races[j].isPB}

\* the greatest of a non-empty set of positions
Latest(positions) == CHOOSE j \in positions : \A k \in positions : k <= j

\* C19: in a ledger built by submissions alone, for the swimmer id of a
\* personalBests call and every event in which that id has a race, some
\* race of the pair is stored with isPB = TRUE, and the mapping's time for
\* the event is the time of the latest such race.
C19_PBsAreLatestFlagged ==
    PBsRead =>
        \A e \in {races[j].event : j \in 1..Len(races)} :
            RacesOf(request.swimmer_id, e) # {} =>
                /\ PBsStored(request.swimmer_id, e) # {}
                /\ Has(response.body, e)
                /\ response.body[e].time =
                       races[Latest(PBsStored(request.swimmer_id, e))].time

\* C19 witness: the latest flagged race is neither the first nor the last
\* of the swimmer's three races
C19_Witness ==
    /\ PBsRead
    /\ TimesOf(request.swimmer_id, "50free") = <<T3050, T2980, T3010>>
    /\ response.body["50free"].time = T2980

\* C19 witness: the best time was swum again in the other format and the
\* mapping shows the first of the two
C19_TieWitness ==
    /\ PBsRead
    /\ TimesOf(request.swimmer_id, "50free") = <<T3050, T02980, T2980>>
    /\ response.body["50free"].time = T02980

\* C19 witness: 68.04 and then 1:08.04 were swum, both were stored as PBs,
\* and the mapping shows 1:08.04
C19_RoundingWitness ==
    /\ PBsRead
    /\ TimesOf(request.swimmer_id, "100free") = <<T6804, T10804>>
    /\ FlagsOf(request.swimmer_id, "100free") = <<TRUE, TRUE>>
    /\ response.body["100free"].time = T10804

(***************************************************************************)
(* SpecAgree: registrations, updates that move a swimmer to another id     *)
(* (a free one or one in use), race submissions for ids 1 and 3, and the   *)
(* two derivations: the unfiltered 50free leaderboard and personal bests.  *)
(***************************************************************************)
AgreeSwimmerBodies == {Json([name |-> "Ann", age |-> 17, gender |-> "F", team |-> NYC])}

AgreePutBodies == {[id |-> 1], [id |-> 3]}

\* for id 1: 68.04, then 1:08.04, which parses to the double below that of
\* 68.04, and 01:08.04, which parses to the double of 1:08.04
AgreeRaceBodies ==
    {Json([swimmer_id |-> 1, event |-> "50free", time |-> T6804, meet_id |-> 2]),
     Json([swimmer_id |-> 1, event |-> "50free", time |-> T10804, meet_id |-> 2,
           meet_name |-> "Winter Open", date |-> "2025-12-01"]),
     Json([swimmer_id |-> 1, event |-> "50free", time |-> T010804, meet_id |-> 3]),
     Json([swimmer_id |-> 3, event |-> "50free", time |-> T10804, meet_id |-> 2])}

NextAgree ==
    \/ \E req \in AgreeSwimmerBodies :
           Len(swimmers) < MaxSwimmers /\ handle_swimmers_POST(req) /\ IdsBounded
    \/ \E id \in Ids, json \in AgreePutBodies : handle_swimmer_PUT(id, json)
    \/ \E req \in AgreeRaceBodies, today \in Dates :
           Len(races) < MaxRaces /\ handle_races_POST(req, today)
    \/ get_rankings("50free", "", "")
    \/ \E id \in Ids : get_personal_bests(id)

SpecAgree == Init /\ [][NextAgree]_vars

\* the positions of the entries of a leaderboard that carry the id
EntriesOf(board, id) == {k \in 1..Len(board) : board[k].swimmer_id = id}

\* the leaderboard has one entry for the id, with the time, meet and date
\* of the personal-bests entry
AgreesOn(board, id, pb) ==
    /\ Cardinality(EntriesOf(board, id)) = 1
    /\ \A k \in EntriesOf(board, id) :
           /\ board[k].time = pb.time
           /\ board[k].meet = pb.meet
           /\ board[k].date = pb.date

\* C20: while the swimmer ids are pairwise distinct, an unfiltered
\* leaderboard of event e has, for every registered swimmer whose id has a
\* race in e, exactly one entry, and its time, meet and date are those of
\* personalBests(id)[e]; and the mapping personalBests returns for a
\* registered id agrees in the same way with the unfiltered leaderboard of
\* each of its events.
C20_RankingsAgreeWithPBs ==
    C2_UniqueIds =>
        /\ (Ranked /\ request.gender = "" /\ request.ageGroup = "") =>
               \A i \in 1..Len(swimmers) :
                   RacesOf(swimmers[i].id, request.event) # {} =>
                       /\ Has(personal_bests(swimmers[i].id), request.event)
                       /\ AgreesOn(response.body, swimmers[i].id,
                                   personal_bests(swimmers[i].id)[request.event])
        /\ (PBsRead /\ InRegistry(request.swimmer_id)) =>
               /\ DOMAIN response.body =
                      {e \in {"50free", "100free"} : RacesOf(request.swimmer_id, e) # {}}
               /\ \A e \in DOMAIN response.body :
                      AgreesOn(rankings_of(e, "", ""), request.swimmer_id, response.body[e])

\* C20 witness: an unfiltered leaderboard of two swimmers, one of them with
\* two races, whose entry carries the time and the meet name of the best
C20_Witness ==
    /\ Ranked
    /\ C2_UniqueIds
    /\ Len(response.body) = 2
    /\ \E k \in 1..2 :
           /\ Cardinality(RacesOf(response.body[k].swimmer_id, request.event)) = 2
           /\ response.body[k].meet = "Winter Open"
           /\ response.body[k].time = T10804

\* C20 witness: the swimmer swam 68.04 and then 1:08.04, and the leaderboard
\* and the personal bests both show 1:08.04, the smaller double
C20_RoundingWitness ==
    /\ Ranked
    /\ C2_UniqueIds
    /\ Len(response.body) = 1
    /\ response.body[1].time = T10804
    /\ personal_bests(response.body[1].swimmer_id)["50free"].time = T10804
    /\ \E a, b \in RacesOf(response.body[1].swimmer_id, "50free") :
           a < b /\ races[a].time = T6804 /\ races[b].time = T10804

\* C20 witness: 01:08.04 and then 1:08.04 were swum, one parsed time, and
\* both derivations show the first of the two
C20_TieWitness ==
    /\ PBsRead
    /\ C2_UniqueIds
    /\ InRegistry(request.swimmer_id)
    /\ Has(response.body, "50free")
    /\ response.body["50free"].time = T010804
    /\ \E a, b \in RacesOf(request.swimmer_id, "50free") :
           a < b /\ races[a].time = T010804 /\ races[b].time = T10804

\* C20 witness: personal bests were read for a swimmer moved to id 3, an id
\* with a race in the ledger
C20_MovedWitness ==
    /\ PBsRead
    /\ C2_UniqueIds
    /\ request.swimmer_id = 3
    /\ InRegistry(3)
    /\ Has(response.body, "50free")

\* C20 witness: a leaderboard was served while two swimmers shared an id
C20_SharedIdWitness ==
    /\ Ranked
    /\ ~C2_UniqueIds
    /\ Len(response.body) > 0


(***************************************************************************)
(* SpecReuse: registrations, deletions, race submissions for ids that are  *)
(* registered at the moment of submission, and the two derivations.  A     *)
(* race found under the id of a swimmer just registered was therefore      *)
(* swum under an earlier holder of that id.                                *)
(***************************************************************************)
ReuseSwimmerBodies ==
    {Json([name |-> "Ann", age |-> 17, gender |-> "F", team |-> NYC]),
     Json([name |-> "Bob", age |-> 25, gender |-> "M", team |-> QAS])}

\* the ids races are submitted and personal bests are read for
ReuseIds == {1, 2}

ReuseRaceBodies ==
    {Json([swimmer_id |-> id, event |-> "50free", time |-> t, meet_id |-> 2]) :
        id \in ReuseIds, t \in {T3050, T2980}}

NextReuse ==
    \/ \E req \in ReuseSwimmerBodies :
           Len(swimmers) < MaxSwimmers /\ handle_swimmers_POST(req) /\ IdsBounded
    \/ \E id \in Ids : handle_swimmer_DELETE(id)
    \/ \E req \in ReuseRaceBodies, today \in Dates :
           /\ Len(races) < MaxRaces
           /\ InRegistry(req.json.swimmer_id)
           /\ handle_races_POST(req, today)
    \/ get_rankings("50free", "", "")
    \/ \E id \in ReuseIds : get_personal_bests(id)

SpecReuse == Init /\ [][NextReuse]_vars

\* the last request deleted a swimmer whose id no remaining swimmer exceeds
DeletedMax ==
    /\ request.op = "DELETE /api/swimmers/<id>"
    /\ response.status = 200
    /\ \A i \in 1..Len(swimmers) : swimmers[i].id <= request.swimmer_id

\* the largest id of the registry, 0 when it is empty
TopId == IF Len(swimmers) = 0 THEN 0 ELSE MaxOf(ids_of(swimmers))

\* the events of the catalogue's codes under which the id has a race
EventsOf(id) == {e \in {"50free", "100free"} : RacesOf(id, e) # {}}

\* the request that follows a registration reads or extends the races stored
\* under the new swimmer's id as the new swimmer's own: personalBests of the
\* id has an entry for every event with a race under the id, an unfiltered
\* leaderboard of such an event has an entry with the id and the new
\* swimmer's name, and a race submitted under the id is a PB only if it is
\* strictly faster than every race already stored under the id and event
NewSwimmerInheritsRaces ==
    /\ (Registered /\ PBsRead' /\ request'.swimmer_id = response.body.id) =>
           /\ DOMAIN response'.body = EventsOf(response.body.id)
           /\ \A e \in EventsOf(response.body.id) :
                  response'.body[e].time = races[FirstBest(RacesOf(response.body.id, e))].time
    /\ (Registered /\ Ranked' /\ request'.gender = "" /\ request'.ageGroup = "") =>
           (RacesOf(response.body.id, request'.event) # {} =>
               \E k \in 1..Len(response'.body) :
                   /\ response'.body[k].swimmer_id = response.body.id
                   /\ response'.body[k].name = response.body.name
                   /\ response'.body[k].time =
                          races[FirstBest(RacesOf(response.body.id, request'.event))].time)
    /\ (Registered /\ RaceStored' /\ request'.json.swimmer_id = response.body.id) =>
           response'.body.isPB =
               \A j \in RacesOf(response.body.id, request'.json.event) :
                   Lt(time_to_seconds(request'.json.time), Seconds(j))

\* C21 (as claimed): the swimmer registered right after the deletion of the
\* holder of the largest id receives the deleted id, and the races stored
\* under that id are the new swimmer's for personalBests, rankings and isPB
C21_DeletedMaxIdReused ==
    [][/\ (DeletedMax /\ Registered') => response'.body.id = request.swimmer_id
       /\ NewSwimmerInheritsRaces]_vars

\* C21 (amended): the swimmer registered right after the deletion of the
\* holder of the largest id receives one more than the largest remaining id
\* (1 when none remains), which is the deleted id exactly when the deleted
\* id was that number; and whatever id a new swimmer receives, the races
\* stored under it are the new swimmer's for personalBests, rankings and
\* isPB.
C21_IdReuseInheritsRaces ==
    [][/\ (DeletedMax /\ Registered') =>
              /\ response'.body.id = TopId + 1
              /\ (response'.body.id = request.swimmer_id)
                     = (request.swimmer_id = TopId + 1)
       /\ NewSwimmerInheritsRaces]_vars

\* C21 witness: Bob was just registered under an id that already has a race
\* in the ledger, the registry holding nobody else with that id
C21_Witness ==
    /\ Registered
    /\ response.body.name = "Bob"
    /\ EventsOf(response.body.id) # {}
    /\ response.body.id = 2
    /\ Len(swimmers) = 2

\* C21 witness: a swimmer was registered under id 1 although the deleted
\* holder of the largest id had id 2, whose race stays in the ledger
C21_NotReusedWitness ==
    /\ Registered
    /\ response.body.id = 1
    /\ Len(swimmers) = 1
    /\ EventsOf(2) # {}

====
